---- MODULE Spec2Model ----
(***************************************************************************)
(* State-machine model of the game server: the connection workers          *)
(* (Server.handle_client), the broadcast engine                            *)
(* (Server.broadcast_game_state), the operator commands                    *)
(* (CommandProcessor), the simulation loop (Server.update), the discovery  *)
(* beacon and the framed transport (recvall).                              *)
(*                                                                         *)
(* Threads: one worker per accepted connection (Conns), the main thread    *)
(* (MainThread), which runs the operator commands from the debug bar and   *)
(* the simulation loop, and the beacon thread.  A step of a thread is one  *)
(* locked section of the code (atomic because Server.lock excludes the     *)
(* others) or one unlocked statement group that touches shared state.      *)
(* The locked sections that take more than one step are the streaming      *)
(* update (frozen check, then write), because 'freeze' writes the flag     *)
(* without taking the lock, and a send pass one of whose sends blocks:     *)
(* the variable lock names the thread that is inside such a section.       *)
(* A sendall blocks when its client has stopped reading (the socket        *)
(* buffers are taken to be full by then).                                  *)
(*                                                                         *)
(* Abstractions: grid coordinates and velocities are integers (the code    *)
(* uses floats); the derived pygame rect is left out; print() output is    *)
(* left out.  What a step writes to the sockets (tx) and adds to the       *)
(* operator log, DebugBar.debug_messages (logged), is kept for that step   *)
(* only: the server never reads either back.  The echo of an entered line  *)
(* by DebugBar.handle_event is left out of logged.  A local variable is    *)
(* reset once the code does not read it again.                             *)
(***************************************************************************)
EXTENDS Integers, Sequences, FiniteSets, TLC

\* ------------------------------------------------------------- bounds
MaxConns == 3       \* sockets the listener accepts
MaxSessions == 2    \* of them, the ones that connect while the operator is at work (Spec)
MaxFrames == 1      \* streaming frames the clients send
MaxCmds == 1        \* command lines the operator enters
MaxOperatorCmds == 2  \* command lines the operator enters one after the other (SpecCommands)
MaxTicks == 2       \* ticks of the simulation loop (SpecStall)
MaxStallFrames == 2 \* streaming frames the clients send in all (SpecStall)
MaxPlatformTicks == 9 \* ticks of the simulation loop (SpecPlatforms)
MaxPayload == 2     \* bytes of a framed payload (SpecFrame)

Conns == 1..MaxConns
Sessions == 1..MaxSessions
MainThread == 0
Threads == Conns \cup {MainThread}
NoThread == -1

\* ------------------------------------------------------------- values
NoneUuid == "None"
NoHat == "none"
HandshakeRecords ==
    { [uuid |-> "u1", username |-> "Alice", hat |-> NoHat],
      [uuid |-> "u1", username |-> "Bob", hat |-> "cap.png"],
      [uuid |-> "u2", username |-> "Bob", hat |-> NoHat] }

\* the identity frame of a client that keeps its own identity
OwnRecord(c) ==
    [uuid |-> IF c = 1 THEN "u1" ELSE IF c = 2 THEN "u2" ELSE "u3",
     username |-> IF c = 1 THEN "Alice" ELSE "Bob", hat |-> NoHat]

SpawnX == 2
SpawnY == 10
SpawnSpeed == 300

\* A deserialized streaming record: client_data of the streaming loop.
\* ok = FALSE is a payload pickle.loads rejects.
FullFrame ==
    [ok |-> TRUE, hasPos |-> TRUE, position |-> <<5, 3>>,
     hasVel |-> TRUE, velocity_x |-> 4, velocity_y |-> -6,
     hasGrav |-> TRUE, gravity_direction |-> "up"]
PosOnlyFrame ==
    [ok |-> TRUE, hasPos |-> TRUE, position |-> <<3, 10>>,
     hasVel |-> FALSE, velocity_x |-> 0, velocity_y |-> 0,
     hasGrav |-> FALSE, gravity_direction |-> "down"]
NoPosFrame ==
    [ok |-> TRUE, hasPos |-> FALSE, position |-> <<0, 0>>,
     hasVel |-> FALSE, velocity_x |-> 0, velocity_y |-> 0,
     hasGrav |-> FALSE, gravity_direction |-> "down"]
BadFrame ==
    [ok |-> FALSE, hasPos |-> FALSE, position |-> <<0, 0>>,
     hasVel |-> FALSE, velocity_x |-> 0, velocity_y |-> 0,
     hasGrav |-> FALSE, gravity_direction |-> "down"]
StreamFrames == {FullFrame, PosOnlyFrame, NoPosFrame, BadFrame}

\* a coordinate that is not a number (a string, None)
NotANumber == -1
\* frames that deserialize and whose position cannot be applied: three
\* coordinates, and a pair that does not hold numbers
TripleFrame ==
    [ok |-> TRUE, hasPos |-> TRUE, position |-> <<5, 3, 1>>,
     hasVel |-> TRUE, velocity_x |-> 4, velocity_y |-> -6,
     hasGrav |-> TRUE, gravity_direction |-> "up"]
NoNumberFrame ==
    [ok |-> TRUE, hasPos |-> TRUE, position |-> <<NotANumber, NotANumber>>,
     hasVel |-> TRUE, velocity_x |-> 4, velocity_y |-> -6,
     hasGrav |-> TRUE, gravity_direction |-> "up"]
UnappliedFrames == {BadFrame, TripleFrame, NoNumberFrame}

NoHandshake == [uuid |-> NoneUuid, username |-> "Player", hat |-> NoHat]
NoSnap == [players |-> << >>, platforms |-> << >>, chat |-> << >>]
NoCmd == [name |-> "", args |-> << >>]

\* history: no command that names a player is being carried out; no ban so far
NoCall == [name |-> "", uuid |-> ""]
NoBan == [id |-> "", uuid |-> "", before |-> {}]

\* client.py main(): platforms = [], players = {}, the receive thread waiting
\* for a frame, the main loop before its first update
NoReceived == [platforms |-> << >>, players |-> << >>]
InitClient ==
    [platforms |-> << >>, players |-> {}, received |-> NoReceived,
     rpc |-> "recv", mpc |-> "update", view |-> << >>, camera |-> "screen"]

VARIABLES
    players,          \* Server.players: insertion-ordered dict, a sequence of Player records
    clients,          \* Server.clients: insertion-ordered dict, a sequence of [conn, uuid]
    banned_players,   \* Server.banned_players
    chat_messages,    \* Server.chat_messages
    platforms,        \* Server.platforms
    lock,             \* holder of Server.lock, NoThread when free
    logged,           \* the messages the last step added to DebugBar.debug_messages
    pc,               \* position of each thread
    hs,               \* worker: client_uuid / username / hat of the handshake
    wplayer,          \* worker: its local 'player' (index in players, 0: none yet)
    frame,            \* worker: client_data of the frame being processed
    snap,             \* thread: the snapshot serialized by its broadcast cycle
    cmd,              \* main thread: the parsed command being executed
    ctarget,          \* main thread: 'player' resolved by the command (index, 0: None)
    closed,           \* sockets the server has closed (conn.close())
    peerOpen,         \* whether the client's end of each socket is still open
    tx,               \* the frames the last step wrote: a set of [conn, data]
    framesLeft,       \* streaming frames the clients may still send
    cmdsLeft,         \* command lines the operator may still enter
    wstat,            \* history: state of the position write a thread's cycle follows
    wire,             \* transport: the segments that reached the socket and are not read yet
    payload,          \* transport: the payload of the frame the client sent last
    rxpath,           \* transport: the read the worker is at, "handshake" or "stream"
    rxout,            \* transport: what that read made of the frame
    stalled,          \* the connections whose client has stopped reading
    pending,          \* the targets left to a send pass that is blocked in sendall
    behind,           \* history: the threads whose snapshot is older than a later one
    ticks,            \* the ticks of the simulation loop that completed
    beacon,           \* the discovery beacon's position in its loop
    call,             \* history: the command being carried out and the uuid it resolved
    lastBan,          \* history: the last ban, its identifier, its uuid, the ban set before
    seen,             \* history: how many lines of the chat queue a snapshot has held
    client            \* client.py main(): the receive thread and the main loop of one client

vars == << players, clients, banned_players, chat_messages, platforms, lock,
           logged, pc, hs, wplayer, frame, snap, cmd, ctarget,
           closed, peerOpen, tx, framesLeft, cmdsLeft, wstat,
           wire, payload, rxpath, rxout, stalled, pending, behind, ticks, beacon,
           call, lastBan, seen, client >>

\* the store, the threads' locals, the sockets, the inputs left, the transport
storeVars == << players, clients, banned_players, chat_messages, platforms >>
workerVars == << hs, wplayer, frame >>
mainVars == << cmd, ctarget >>
budgetVars == << framesLeft, cmdsLeft >>
frameVars == << wire, payload, rxpath, rxout >>
histVars == << call, lastBan, seen >>
auxVars == << stalled, pending, behind, ticks, beacon, histVars, client >>
serverVars == << storeVars, lock, logged, pc, workerVars, snap, mainVars, closed,
                 peerOpen, tx, budgetVars, wstat, auxVars >>

\* ------------------------------------------------------------- dict helpers
RemoveAt(s, i) == SubSeq(s, 1, i - 1) \o SubSeq(s, i + 1, Len(s))

\* uuid in self.players
PlayersHas(ps, u) == \E i \in DOMAIN ps : ps[i].uuid = u
\* self.players[u] as an index; self.players.get(u) gives 0 for None
PlayersGet(ps, u) ==
    IF PlayersHas(ps, u) THEN CHOOSE i \in DOMAIN ps : ps[i].uuid = u ELSE 0

\* conn in self.clients
ClientsHas(cl, c) == \E i \in DOMAIN cl : cl[i].conn = c
\* self.clients.get(conn): the uuid, NoneUuid for None
ClientsGet(cl, c) ==
    IF ClientsHas(cl, c) THEN cl[CHOOSE i \in DOMAIN cl : cl[i].conn = c].uuid
    ELSE NoneUuid
\* del self.clients[conn]
ClientsDel(cl, c) ==
    IF ClientsHas(cl, c) THEN RemoveAt(cl, CHOOSE i \in DOMAIN cl : cl[i].conn = c)
    ELSE cl
\* the first entry of the table bound to uuid u (index, 0 if none):
\* "for c, uuid in self.clients.items(): if uuid == u: ...; break"
FirstEntryOf(cl, u) ==
    IF \E i \in DOMAIN cl : cl[i].uuid = u
    THEN CHOOSE i \in DOMAIN cl :
            /\ cl[i].uuid = u
            /\ \A j \in DOMAIN cl : cl[j].uuid = u => i <= j
    ELSE 0

\* conn.sendall succeeds: the socket is not closed on the server side and the
\* peer has not closed or reset it
SendOk(c, cls, po) == c \notin cls /\ po[c]

\* ------------------------------------------------------------- frames
InitFrame(p) ==
    [kind |-> "init", position |-> <<p.grid_x, p.grid_y>>,
     velocity_x |-> p.velocity_x, velocity_y |-> p.velocity_y,
     hat |-> p.hat, username |-> p.username]
StateFrame(s) ==
    [kind |-> "state", players |-> s.players, platforms |-> s.platforms, chat |-> s.chat]
\* one frame written to one socket
Tx(c, data) == [conn |-> c, data |-> data]
BanFrame == [kind |-> "ban"]
KickFrame == [kind |-> "kick"]

\* a faulty snapshot: every player serialized at the spawn point
TakeSnapshotAtSpawn(ps, pl, ch) ==
    [players |-> [i \in DOMAIN ps |-> [ps[i] EXCEPT !.grid_x = SpawnX, !.grid_y = SpawnY]],
     platforms |-> [i \in DOMAIN pl |-> [platform_type |-> pl[i].platform_type,
                                        active |-> pl[i].active]],
     chat |-> ch]

\* Player.serialize of every player, the platform fields that change, the chat
TakeSnapshot(ps, pl, ch) ==
    [players |-> ps,
     platforms |-> [i \in DOMAIN pl |-> [platform_type |-> pl[i].platform_type,
                                        active |-> pl[i].active]],
     chat |-> ch]

\* ------------------------------------------------------------- players
\* a faulty constructor: the player starts disconnected, with the default name
NewPlayerOffline(u, name, hat) ==
    [uuid |-> u, grid_x |-> SpawnX, grid_y |-> SpawnY,
     velocity_x |-> 0, velocity_y |-> 0, speed |-> SpawnSpeed,
     frozen |-> FALSE, username |-> "Player", hat |-> hat,
     gravity_direction |-> "down", connected |-> FALSE]

\* Player(2.0, 10.0, 20, 20, username, hat, uuid); player.speed = 300.0
NewPlayer(u, name, hat) ==
    [uuid |-> u, grid_x |-> SpawnX, grid_y |-> SpawnY,
     velocity_x |-> 0, velocity_y |-> 0, speed |-> SpawnSpeed,
     frozen |-> FALSE, username |-> name, hat |-> hat,
     gravity_direction |-> "down", connected |-> TRUE]

\* a faulty reconnect: the player is put back at the spawn point
RebindAtSpawn(p, name, hat) ==
    [p EXCEPT !.connected = TRUE, !.username = name, !.hat = hat,
              !.grid_x = SpawnX, !.grid_y = SpawnY]

\* the reconnect branches of the bind step
RebindPlayer(p, name, hat) ==
    [p EXCEPT !.connected = TRUE, !.username = name, !.hat = hat]

\* a faulty supersede rule: the earlier entry stays in the table
SupersedeKeep(cl, u) == cl

\* the supersede rule: close and delete the first entry bound to uuid u
SupersedeTable(cl, u) ==
    IF FirstEntryOf(cl, u) # 0 THEN RemoveAt(cl, FirstEntryOf(cl, u)) ELSE cl
SupersedeClosed(cl, u, cls) ==
    IF FirstEntryOf(cl, u) # 0 THEN cls \cup {cl[FirstEntryOf(cl, u)].conn} ELSE cls

\* a faulty update: only the position is written
ApplyPositionOnly(p, f) ==
    [p EXCEPT !.grid_x = f.position[1], !.grid_y = f.position[2]]

\* the write of a streaming update to a player that is not frozen
ApplyUpdate(p, f) ==
    [p EXCEPT !.grid_x = f.position[1], !.grid_y = f.position[2],
              !.velocity_x = IF f.hasVel THEN f.velocity_x ELSE @,
              !.velocity_y = IF f.hasVel THEN f.velocity_y ELSE @,
              !.gravity_direction = IF f.hasGrav THEN f.gravity_direction ELSE @]

\* "player.grid_x, player.grid_y = position" unpacks
Unpacks(f) == Len(f.position) = 2
\* int(player.grid_x * TILE_SIZE) and int(player.grid_y * TILE_SIZE) return
Converts(f) == f.position[1] # NotANumber /\ f.position[2] # NotANumber

\* the writes of the update up to "player.rect.x = int(player.grid_x * TILE_SIZE)",
\* which raises
ApplyUntilRect(p, f) ==
    [p EXCEPT !.grid_x = f.position[1], !.grid_y = f.position[2],
              !.velocity_x = IF f.hasVel THEN f.velocity_x ELSE @,
              !.velocity_y = IF f.hasVel THEN f.velocity_y ELSE @]

\* the uuid of the player a thread's local 'player' refers to
TargetUuid(t) ==
    IF t = MainThread
    THEN (IF ctarget = 0 THEN NoneUuid ELSE players[ctarget].uuid)
    ELSE (IF wplayer[t] = 0 THEN NoneUuid ELSE players[wplayer[t]].uuid)

\* history: thread t writes the position of player u; a write by another thread
\* that has not taken its snapshot yet is no longer the latest one
MarkWrite(ws, t, u) ==
    [s \in Threads |->
        IF s = t THEN "fresh"
        ELSE IF ws[s] = "fresh" /\ pc[s] = "b1" /\ TargetUuid(s) = u THEN "stale"
        ELSE ws[s]]


\* ------------------------------------------------------------- outputs of a step
\* self.add_debug_message(...), once per kind in ks
Log(ks) == logged' = ks
NoLog == logged' = << >>
NoTx == tx' = {}

\* ------------------------------------------------------------- worker: handshake
\* The connection closes or fails before a complete identity frame is read.
HandshakeFail(c) ==
    /\ pc[c] = "init"
    /\ closed' = closed \cup {c}
    /\ pc' = [pc EXCEPT ![c] = "rejected"]
    /\ NoLog /\ NoTx
    /\ UNCHANGED << storeVars, lock, workerVars, snap, mainVars, peerOpen,
                    budgetVars, wstat, frameVars, auxVars >>

\* a faulty handshake: the ban set is not looked at
HandshakeUnchecked(c, r) ==
    /\ pc[c] = "init"
    /\ hs' = [hs EXCEPT ![c] = r]
    /\ pc' = [pc EXCEPT ![c] = "bind"]
    /\ NoLog /\ NoTx
    /\ UNCHANGED << storeVars, lock, wplayer, frame, snap, mainVars, closed, peerOpen,
                    budgetVars, wstat, frameVars, auxVars >>

\* The identity frame r is read and the ban set is checked (no lock is held).
Handshake(c, r) ==
    /\ pc[c] = "init"
    /\ IF r.uuid \in banned_players
       THEN /\ IF SendOk(c, closed, peerOpen)
               THEN /\ tx' = {Tx(c, BanFrame)}
                    /\ Log(<< "banned_attempt" >>)
               ELSE /\ tx' = {}
                    /\ Log(<< "banned_attempt", "ban_send_error" >>)
            /\ closed' = closed \cup {c}
            /\ pc' = [pc EXCEPT ![c] = "rejected"]
            /\ hs' = hs
       ELSE /\ hs' = [hs EXCEPT ![c] = r]
            /\ pc' = [pc EXCEPT ![c] = "bind"]
            /\ closed' = closed
            /\ NoLog /\ NoTx
    /\ UNCHANGED << storeVars, lock, wplayer, frame, snap, mainVars, peerOpen,
                    budgetVars, wstat, frameVars, auxVars >>

\* ------------------------------------------------------------- worker: bind
\* The locked bind step.
Bind(c) ==
    /\ pc[c] = "bind"
    /\ lock = NoThread
    /\ LET u == hs[c].uuid
           i == PlayersGet(players, u)
       IN IF i # 0
          THEN IF players[i].connected
               THEN /\ clients' = Append(SupersedeTable(clients, u), [conn |-> c, uuid |-> u])
                    /\ closed' = SupersedeClosed(clients, u, closed)
                    /\ players' = [players EXCEPT ![i] = RebindPlayer(@, hs[c].username, hs[c].hat)]
                    /\ Log(IF FirstEntryOf(clients, u) # 0
                           THEN << "already_connected", "reconnected" >>
                           ELSE << "reconnected" >>)
                    /\ wplayer' = [wplayer EXCEPT ![c] = i]
               ELSE /\ clients' = Append(clients, [conn |-> c, uuid |-> u])
                    /\ closed' = closed
                    /\ players' = [players EXCEPT ![i] = RebindPlayer(@, hs[c].username, hs[c].hat)]
                    /\ Log(<< "reconnected" >>)
                    /\ wplayer' = [wplayer EXCEPT ![c] = i]
          ELSE /\ players' = Append(players, NewPlayer(u, hs[c].username, hs[c].hat))
               /\ clients' = Append(clients, [conn |-> c, uuid |-> u])
               /\ closed' = closed
               /\ Log(<< "connected" >>)
               /\ wplayer' = [wplayer EXCEPT ![c] = Len(players) + 1]
    /\ hs' = [hs EXCEPT ![c] = NoHandshake]
    /\ pc' = [pc EXCEPT ![c] = "sendinit"]
    /\ NoTx
    /\ UNCHANGED << banned_players, chat_messages, platforms, lock, frame, snap,
                    mainVars, peerOpen, budgetVars, wstat, frameVars, auxVars >>

\* The initial position snapshot, sent without the lock.  When the send fails
\* the worker closes the socket and returns.
SendInit(c) ==
    /\ pc[c] = "sendinit"
    /\ IF SendOk(c, closed, peerOpen)
       THEN /\ tx' = {Tx(c, InitFrame(players[wplayer[c]]))}
            /\ closed' = closed
            /\ pc' = [pc EXCEPT ![c] = "recv"]
       ELSE /\ tx' = {}
            /\ closed' = closed \cup {c}
            /\ pc' = [pc EXCEPT ![c] = "done"]
    /\ wplayer' = [wplayer EXCEPT ![c] = 0]
    /\ NoLog
    /\ UNCHANGED << storeVars, lock, hs, frame, snap, mainVars, peerOpen,
                    budgetVars, wstat, frameVars, auxVars >>

\* ------------------------------------------------------------- worker: streaming loop
\* conn.recv / recvall return the frame f of the client and it is deserialized.
RecvFrame(c, f) ==
    /\ pc[c] = "recv"
    /\ c \notin closed
    /\ peerOpen[c]
    /\ framesLeft > 0
    /\ framesLeft' = framesLeft - 1
    /\ IF ~f.ok
       THEN /\ pc' = [pc EXCEPT ![c] = "teardown"]
            /\ frame' = frame
       ELSE /\ pc' = [pc EXCEPT ![c] = IF f.hasPos THEN "apply" ELSE "b1"]
            /\ frame' = [frame EXCEPT ![c] = f]
    /\ NoLog /\ NoTx
    /\ UNCHANGED << storeVars, lock, hs, wplayer, snap, mainVars, closed, peerOpen,
                    cmdsLeft, wstat, frameVars, auxVars >>

\* End of stream (the peer closed) or a read error (reset, or the socket was
\* closed by another thread of the server).
RecvEnd(c) ==
    /\ pc[c] = "recv"
    /\ c \in closed \/ ~peerOpen[c]
    /\ pc' = [pc EXCEPT ![c] = "teardown"]
    /\ NoLog /\ NoTx
    /\ UNCHANGED << storeVars, lock, workerVars, snap, mainVars, closed, peerOpen,
                    budgetVars, wstat, frameVars, auxVars >>

\* a faulty check: the frame of a frozen player is dropped without a broadcast
ApplyCheckFrozenSkips(c) ==
    /\ pc[c] = "apply"
    /\ lock = NoThread
    /\ IF ~ClientsHas(clients, c)
       THEN \* KeyError: the lock is released and the loop is left
            /\ pc' = [pc EXCEPT ![c] = "teardown"]
            /\ frame' = [frame EXCEPT ![c] = NoPosFrame]
            /\ UNCHANGED << lock, wplayer >>
       ELSE LET i == PlayersGet(players, ClientsGet(clients, c))
            IN /\ wplayer' = [wplayer EXCEPT ![c] = i]
               /\ frame' = frame
               /\ IF players[i].frozen
                  THEN /\ pc' = [pc EXCEPT ![c] = "recv"]
                       /\ lock' = lock
                  ELSE /\ pc' = [pc EXCEPT ![c] = "write"]
                       /\ lock' = c
    /\ NoLog /\ NoTx
    /\ UNCHANGED << storeVars, hs, snap, mainVars, closed, peerOpen,
                    budgetVars, wstat, frameVars, auxVars >>

\* with self.lock: player = self.players[self.clients[conn]]; if not player.frozen
ApplyCheck(c) ==
    /\ pc[c] = "apply"
    /\ lock = NoThread
    /\ IF ~ClientsHas(clients, c)
       THEN \* KeyError: the lock is released and the loop is left
            /\ pc' = [pc EXCEPT ![c] = "teardown"]
            /\ frame' = [frame EXCEPT ![c] = NoPosFrame]
            /\ UNCHANGED << lock, wplayer >>
       ELSE LET i == PlayersGet(players, ClientsGet(clients, c))
            IN /\ wplayer' = [wplayer EXCEPT ![c] = i]
               /\ frame' = frame
               /\ IF players[i].frozen
                  THEN /\ pc' = [pc EXCEPT ![c] = "b1"]
                       /\ lock' = lock
                  ELSE /\ pc' = [pc EXCEPT ![c] = "write"]
                       /\ lock' = c
    /\ NoLog /\ NoTx
    /\ UNCHANGED << storeVars, hs, snap, mainVars, closed, peerOpen,
                    budgetVars, wstat, frameVars, auxVars >>

\* a faulty write: the lock is not released
ApplyWriteKeepsLock(c) ==
    /\ pc[c] = "write"
    /\ lock = c
    /\ IF Unpacks(frame[c]) /\ Converts(frame[c])
       THEN /\ players' = [players EXCEPT ![wplayer[c]] = ApplyUpdate(@, frame[c])]
            /\ wstat' = MarkWrite(wstat, c, players[wplayer[c]].uuid)
            /\ pc' = [pc EXCEPT ![c] = "b1"]
            /\ UNCHANGED workerVars
       ELSE /\ players' = IF Unpacks(frame[c])
                          THEN [players EXCEPT ![wplayer[c]] = ApplyUntilRect(@, frame[c])]
                          ELSE players
            /\ wstat' = wstat
            /\ pc' = [pc EXCEPT ![c] = "teardown"]
            /\ wplayer' = [wplayer EXCEPT ![c] = 0]
            /\ frame' = [frame EXCEPT ![c] = NoPosFrame]
            /\ hs' = hs
    /\ lock' = lock
    /\ NoLog /\ NoTx
    /\ UNCHANGED << clients, banned_players, chat_messages, platforms,
                    snap, mainVars, closed, peerOpen, budgetVars, frameVars, auxVars >>

\* the writes of the update, or the ones before the exception that ends the
\* loop; then the lock is released
ApplyWrite(c) ==
    /\ pc[c] = "write"
    /\ lock = c
    /\ IF Unpacks(frame[c]) /\ Converts(frame[c])
       THEN /\ players' = [players EXCEPT ![wplayer[c]] = ApplyUpdate(@, frame[c])]
            /\ wstat' = MarkWrite(wstat, c, players[wplayer[c]].uuid)
            /\ pc' = [pc EXCEPT ![c] = "b1"]
            /\ UNCHANGED workerVars
       ELSE /\ players' = IF Unpacks(frame[c])
                          THEN [players EXCEPT ![wplayer[c]] = ApplyUntilRect(@, frame[c])]
                          ELSE players
            /\ wstat' = wstat
            /\ pc' = [pc EXCEPT ![c] = "teardown"]
            /\ wplayer' = [wplayer EXCEPT ![c] = 0]
            /\ frame' = [frame EXCEPT ![c] = NoPosFrame]
            /\ hs' = hs
    /\ lock' = NoThread
    /\ NoLog /\ NoTx
    /\ UNCHANGED << clients, banned_players, chat_messages, platforms,
                    snap, mainVars, closed, peerOpen, budgetVars, frameVars, auxVars >>

\* ------------------------------------------------------------- worker: teardown
\* The locked teardown and conn.close().
Teardown(c) ==
    /\ pc[c] = "teardown"
    /\ lock = NoThread
    /\ LET i == PlayersGet(players, ClientsGet(clients, c))
       IN IF i # 0
          THEN /\ players' = [players EXCEPT ![i].connected = FALSE]
               /\ Log(<< "disconnected" >>)
          ELSE /\ players' = players
               /\ NoLog
    /\ clients' = ClientsDel(clients, c)
    /\ closed' = closed \cup {c}
    /\ pc' = [pc EXCEPT ![c] = "done"]
    /\ NoTx
    /\ UNCHANGED << banned_players, chat_messages, platforms, lock, workerVars,
                    snap, mainVars, peerOpen, budgetVars, wstat, frameVars, auxVars >>

\* ------------------------------------------------------------- the client's end
\* The client closes or resets its end of the socket.
ClientClose(c) ==
    /\ pc[c] \notin {"rejected", "done"}
    /\ peerOpen[c]
    /\ peerOpen' = [peerOpen EXCEPT ![c] = FALSE]
    /\ NoLog /\ NoTx
    /\ UNCHANGED << storeVars, lock, pc, workerVars, snap, mainVars, closed,
                    budgetVars, wstat, frameVars, auxVars >>

\* The client stops reading from its socket: the data the server sends to it is
\* no longer taken, and a sendall to it blocks.
ClientStall(c) ==
    /\ pc[c] \notin {"rejected", "done"}
    /\ peerOpen[c]
    /\ c \notin stalled
    /\ stalled' = stalled \cup {c}
    /\ NoLog /\ NoTx
    /\ UNCHANGED << storeVars, lock, pc, workerVars, snap, mainVars, closed, peerOpen,
                    budgetVars, wstat, frameVars, pending, behind, ticks, beacon, histVars, client >>

\* ------------------------------------------------------------- broadcast engine
\* first locked section: the snapshot is built and serialized
Snapshot(t) ==
    /\ pc[t] = "b1"
    /\ lock = NoThread
    /\ snap' = [snap EXCEPT ![t] = TakeSnapshot(players, platforms, chat_messages)]
    /\ behind' = behind \cup {s \in Threads \ {t} : pc[s] = "b2"}
    /\ seen' = Len(chat_messages)
    /\ pc' = [pc EXCEPT ![t] = "b2"]
    /\ NoLog /\ NoTx
    /\ UNCHANGED << storeVars, lock, workerVars, mainVars, closed, peerOpen,
                    budgetVars, wstat, frameVars, stalled, pending, ticks, beacon,
                    call, lastBan, client >>

\* a faulty failure handling: the player of the dead connection is deleted
SendOneForget(c, data, st, po) ==
    IF SendOk(c, st.closed, po)
    THEN [st EXCEPT !.tx = @ \cup {Tx(c, data)}]
    ELSE LET i == PlayersGet(st.players, ClientsGet(st.clients, c))
         IN [st EXCEPT !.closed = @ \cup {c},
                       !.clients = ClientsDel(@, c),
                       !.players = IF i # 0 THEN RemoveAt(@, i) ELSE @,
                       !.logged = Append(@, "send_error")]

\* one target of the send pass: the send, or the handling of its failure
SendOne(c, data, st, po) ==
    IF SendOk(c, st.closed, po)
    THEN [st EXCEPT !.tx = @ \cup {Tx(c, data)}]
    ELSE LET i == PlayersGet(st.players, ClientsGet(st.clients, c))
         IN [st EXCEPT !.closed = @ \cup {c},
                       !.clients = ClientsDel(@, c),
                       !.players = IF i # 0 THEN [@ EXCEPT ![i].connected = FALSE] ELSE @,
                       !.logged = Append(@, "send_error")]

\* a faulty pass: it ends at the first target whose send fails
RECURSIVE SendPassUntilFailure(_, _, _, _)
SendPassUntilFailure(targets, data, st, po) ==
    IF targets = << >> THEN st
    ELSE IF SendOk(Head(targets), st.closed, po)
    THEN SendPassUntilFailure(Tail(targets), data, SendOne(Head(targets), data, st, po), po)
    ELSE SendOne(Head(targets), data, st, po)

\* for client in target_clients: ...
RECURSIVE SendPass(_, _, _, _)
SendPass(targets, data, st, po) ==
    IF targets = << >> THEN st
    ELSE SendPass(Tail(targets), data, SendOne(Head(targets), data, st, po), po)

\* target_clients = list(self.clients.keys())
TargetClients(cl) == [i \in DOMAIN cl |-> cl[i].conn]

\* conn.sendall blocks: the socket is sound and its client has stopped reading
Blocks(c) == c \in stalled /\ SendOk(c, closed, peerOpen)

\* the first target of a pass whose send blocks (its index, 0 if none)
FirstBlocked(targets) ==
    IF \E i \in DOMAIN targets : Blocks(targets[i])
    THEN CHOOSE i \in DOMAIN targets :
            /\ Blocks(targets[i])
            /\ \A j \in DOMAIN targets : Blocks(targets[j]) => i <= j
    ELSE 0

\* the sends of a pass to 'targets', none of which blocks
PassOver(t, targets) ==
    LET st == SendPass(targets, StateFrame(snap[t]),
                       [clients |-> clients, closed |-> closed, players |-> players,
                        tx |-> {}, logged |-> << >>],
                       peerOpen)
    IN /\ clients' = st.clients
       /\ closed' = st.closed
       /\ players' = st.players
       /\ tx' = st.tx
       /\ logged' = st.logged

\* broadcast_game_state leaves its second locked section
PassDone(t) ==
    /\ snap' = [snap EXCEPT ![t] = NoSnap]
    /\ wstat' = [wstat EXCEPT ![t] = "none"]
    /\ behind' = behind \ {t}
    /\ IF t = MainThread
       THEN /\ cmd' = NoCmd
            /\ ctarget' = 0
            /\ UNCHANGED << wplayer, frame >>
       ELSE /\ wplayer' = [wplayer EXCEPT ![t] = 0]
            /\ frame' = [frame EXCEPT ![t] = NoPosFrame]
            /\ UNCHANGED << cmd, ctarget >>
    /\ pc' = [pc EXCEPT ![t] = "b3"]

\* second locked section: the frame is sent to every connection of the table
SendAll(t) ==
    /\ pc[t] = "b2"
    /\ lock = NoThread
    /\ FirstBlocked(TargetClients(clients)) = 0
    /\ PassOver(t, TargetClients(clients))
    /\ PassDone(t)
    /\ UNCHANGED << banned_players, chat_messages, platforms, lock, hs, peerOpen,
                    budgetVars, frameVars, stalled, pending, ticks, beacon, histVars, client >>

\* second locked section, a send of which blocks: the thread stays in sendall
\* and holds the lock
SendBlocked(t) ==
    /\ pc[t] = "b2"
    /\ lock = NoThread
    /\ LET targets == TargetClients(clients)
           k == FirstBlocked(targets)
       IN /\ k # 0
          /\ PassOver(t, SubSeq(targets, 1, k - 1))
          /\ pending' = SubSeq(targets, k, Len(targets))
    /\ lock' = t
    /\ pc' = [pc EXCEPT ![t] = "send"]
    /\ UNCHANGED << banned_players, chat_messages, platforms, workerVars, snap,
                    mainVars, peerOpen, budgetVars, wstat, frameVars, stalled,
                    behind, ticks, beacon, histVars, client >>

\* the blocked sendall returns or raises, and the pass goes on to the next
\* send that blocks or to its end
SendResume(t) ==
    /\ pc[t] = "send"
    /\ lock = t
    /\ LET k == FirstBlocked(pending)
       IN /\ k # 1
          /\ IF k = 0
             THEN /\ PassOver(t, pending)
                  /\ PassDone(t)
                  /\ pending' = << >>
                  /\ lock' = NoThread
             ELSE /\ PassOver(t, SubSeq(pending, 1, k - 1))
                  /\ pending' = SubSeq(pending, k, Len(pending))
                  /\ UNCHANGED << lock, pc, workerVars, snap, mainVars, wstat, behind >>
    /\ UNCHANGED << banned_players, chat_messages, platforms, hs, peerOpen,
                    budgetVars, frameVars, stalled, ticks, beacon, histVars, client >>

\* self.chat_messages.clear(), after the lock is released
ClearChat(t) ==
    /\ pc[t] = "b3"
    /\ chat_messages' = << >>
    /\ pc' = [pc EXCEPT ![t] = IF t = MainThread THEN "idle" ELSE "recv"]
    /\ call' = IF t = MainThread THEN NoCall ELSE call
    /\ seen' = 0
    /\ NoLog /\ NoTx
    /\ UNCHANGED << players, clients, banned_players, platforms, lock, workerVars,
                    snap, mainVars, closed, peerOpen, budgetVars, wstat, frameVars,
                    stalled, pending, behind, ticks, beacon, lastBan, client >>

\* ------------------------------------------------------------- operator commands
\* CommandProcessor.commands
Registry ==
    {"teleport", "setpos", "add", "kick", "ban", "unban", "broadcast", "set_speed",
     "freeze", "unfreeze", "list", "make_platform", "smite", "launch", "give_hat",
     "change_gravity", "help"}

\* str.lower(), on the tokens the model uses
Lower(tok) ==
    CASE tok = "KICK" -> "kick"
      [] tok = "Teleport" -> "teleport"
      [] tok = "UP" -> "up"
      [] OTHER -> tok

\* float(tok) and int(tok) succeed
IsFloat(tok) == tok \in {"7", "2", "2.5"}
IsInt(tok) == tok \in {"7", "2"}
FloatOf(tok) == CASE tok = "7" -> 7 [] tok = "2" -> 2 [] OTHER -> 0

\* faulty checks: only the number of arguments is looked at
ValidateArity(name, args) ==
    CASE name \in {"teleport", "setpos", "add"} -> IF Len(args) # 3 THEN "usage" ELSE "ok"
      [] name \in {"kick", "ban", "unban", "freeze", "unfreeze", "smite", "launch"} ->
            IF Len(args) # 1 THEN "usage" ELSE "ok"
      [] name = "broadcast" -> IF Len(args) = 0 THEN "usage" ELSE "ok"
      [] name \in {"set_speed", "give_hat", "change_gravity"} ->
            IF Len(args) # 2 THEN "usage" ELSE "ok"
      [] name = "make_platform" -> IF Len(args) < 4 \/ Len(args) > 5 THEN "usage" ELSE "ok"
      [] OTHER -> "ok"

\* The checks a handler makes before it touches the store: "ok", or the kind
\* of the message it logs before it returns.
ValidateArgs(name, args) ==
    CASE name \in {"teleport", "setpos", "add"} ->
            IF Len(args) # 3 THEN "usage"
            ELSE IF ~(IsFloat(args[2]) /\ IsFloat(args[3])) THEN "not_a_number"
            ELSE "ok"
      [] name \in {"kick", "ban", "unban", "freeze", "unfreeze", "smite", "launch"} ->
            IF Len(args) # 1 THEN "usage" ELSE "ok"
      [] name = "broadcast" ->
            IF Len(args) = 0 THEN "usage" ELSE "ok"
      [] name = "set_speed" ->
            IF Len(args) # 2 THEN "usage"
            ELSE IF ~IsFloat(args[2]) THEN "not_a_number"
            ELSE "ok"
      [] name = "make_platform" ->
            IF Len(args) < 4 \/ Len(args) > 5 THEN "usage"
            ELSE IF ~(IsFloat(args[1]) /\ IsFloat(args[2]) /\ IsInt(args[3]) /\ IsInt(args[4]))
                 THEN "not_a_number"
            ELSE "ok"
      [] name = "give_hat" ->
            IF Len(args) # 2 THEN "usage" ELSE "ok"
      [] name = "change_gravity" ->
            IF Len(args) # 2 THEN "usage"
            ELSE IF Lower(args[2]) \notin {"up", "down", "left", "right"} THEN "bad_direction"
            ELSE "ok"
      [] OTHER -> "ok"

\* process_command up to the handler's own checks
Validate(tokens) ==
    IF tokens = << >> THEN "empty"
    ELSE IF Lower(Head(tokens)) \notin Registry THEN "unknown"
    ELSE ValidateArgs(Lower(Head(tokens)), Tail(tokens))

\* a faulty lookup: the usernames are tried before the uuids
GetPlayerByUsernameFirst(ps, id) ==
    IF \E i \in DOMAIN ps : ps[i].username = id
    THEN CHOOSE i \in DOMAIN ps :
            /\ ps[i].username = id
            /\ \A j \in DOMAIN ps : ps[j].username = id => i <= j
    ELSE PlayersGet(ps, id)

\* get_player_by_identifier: the uuid first, then the first username in
\* enumeration order; 0 for None
GetPlayerByIdentifier(ps, id) ==
    IF PlayersHas(ps, id) THEN PlayersGet(ps, id)
    ELSE IF \E i \in DOMAIN ps : ps[i].username = id
         THEN CHOOSE i \in DOMAIN ps :
                /\ ps[i].username = id
                /\ \A j \in DOMAIN ps : ps[j].username = id => i <= j
         ELSE 0

\* the handlers that start with get_player_by_identifier(args[0])
Resolving ==
    {"teleport", "setpos", "add", "kick", "ban", "unban", "set_speed", "freeze",
     "unfreeze", "smite", "launch", "give_hat", "change_gravity"}

\* the body of a handler, entered once its checks have passed
StageOf(name) ==
    CASE name \in {"teleport", "setpos"} -> "teleport"
      [] name = "kick" -> "kick"
      [] name = "ban" -> "ban_add"
      [] name = "unban" -> "unban"
      [] name = "freeze" -> "freeze"
      [] name = "launch" -> "launch_lift"
      [] name \in {"add", "broadcast", "set_speed", "unfreeze", "list", "make_platform",
                   "smite", "give_hat", "change_gravity"} -> name
      [] OTHER -> "unmodelled"

\* The operator enters a line: process_command and the handler's checks.
StartCommand(line) ==
    /\ pc[MainThread] = "idle"
    /\ cmdsLeft > 0
    /\ cmdsLeft' = cmdsLeft - 1
    /\ LET v == Validate(line)
       IN IF v = "empty"
          THEN /\ NoLog
               /\ UNCHANGED << cmd, pc >>
          ELSE IF v # "ok"
          THEN /\ Log(<< v >>)
               /\ UNCHANGED << cmd, pc >>
          ELSE IF Lower(Head(line)) = "help"
          THEN /\ Log(<< "help" >>)
               /\ UNCHANGED << cmd, pc >>
          ELSE /\ cmd' = [name |-> Lower(Head(line)), args |-> Tail(line)]
               /\ pc' = [pc EXCEPT ![MainThread] =
                            IF cmd'.name \in Resolving THEN "resolve" ELSE StageOf(cmd'.name)]
               /\ NoLog
    /\ NoTx
    /\ UNCHANGED << storeVars, lock, workerVars, snap, ctarget, closed, peerOpen,
                    framesLeft, wstat, frameVars, auxVars >>

\* player = self.get_player_by_identifier(identifier), a locked read; every
\* handler but unban logs and returns when there is no such player
Resolve ==
    /\ pc[MainThread] = "resolve"
    /\ lock = NoThread
    /\ LET i == GetPlayerByIdentifier(players, cmd.args[1])
       IN IF i = 0 /\ cmd.name # "unban"
          THEN /\ Log(<< "no_player" >>)
               /\ pc' = [pc EXCEPT ![MainThread] = "idle"]
               /\ cmd' = NoCmd
               /\ ctarget' = 0
               /\ call' = NoCall
          ELSE /\ ctarget' = i
               /\ pc' = [pc EXCEPT ![MainThread] = StageOf(cmd.name)]
               /\ cmd' = cmd
               /\ call' = [name |-> cmd.name,
                           uuid |-> IF i = 0 THEN "" ELSE players[i].uuid]
               /\ NoLog
    /\ NoTx
    /\ UNCHANGED << storeVars, lock, workerVars, snap, closed, peerOpen,
                    budgetVars, wstat, frameVars, stalled, pending, behind, ticks, beacon, lastBan, seen, client >>

\* a faulty teleport: the coordinates are swapped
TeleportWriteSwapped(p, x, y) == [p EXCEPT !.grid_x = y, !.grid_y = x]

\* the locked write of teleport_player
TeleportWrite(p, x, y) == [p EXCEPT !.grid_x = x, !.grid_y = y]

Teleport ==
    /\ pc[MainThread] = "teleport"
    /\ lock = NoThread
    /\ players' = [players EXCEPT ![ctarget] =
                      TeleportWrite(@, FloatOf(cmd.args[2]), FloatOf(cmd.args[3]))]
    /\ wstat' = MarkWrite(wstat, MainThread, players[ctarget].uuid)
    /\ Log(<< "teleported" >>)
    /\ pc' = [pc EXCEPT ![MainThread] = "b1"]
    /\ NoTx
    /\ UNCHANGED << clients, banned_players, chat_messages, platforms, lock,
                    workerVars, snap, mainVars, closed, peerOpen, budgetVars, frameVars, auxVars >>

\* a faulty eviction: the player stays marked connected
EvictLeftConnected(notice, done) ==
    /\ lock = NoThread
    /\ LET u == players[ctarget].uuid
           e == FirstEntryOf(clients, u)
       IN IF e # 0
          THEN /\ IF SendOk(clients[e].conn, closed, peerOpen)
                  THEN /\ tx' = {Tx(clients[e].conn, notice)}
                       /\ Log(<< done >>)
                  ELSE /\ tx' = {}
                       /\ Log(<< "notice_send_error", done >>)
               /\ closed' = closed \cup {clients[e].conn}
               /\ clients' = RemoveAt(clients, e)
          ELSE /\ Log(<< done >>)
               /\ NoTx
               /\ UNCHANGED << closed, clients >>
    /\ players' = players
    /\ pc' = [pc EXCEPT ![MainThread] = "b1"]
    /\ UNCHANGED << banned_players, chat_messages, platforms, lock, workerVars,
                    snap, mainVars, peerOpen, budgetVars, wstat, frameVars, auxVars >>

\* The locked section of kick_player and of ban_player: the first entry bound to
\* the player's uuid is sent the notice, closed and deleted; then
\* player.connected = False.
Evict(notice, done) ==
    /\ lock = NoThread
    /\ LET u == players[ctarget].uuid
           e == FirstEntryOf(clients, u)
       IN IF e # 0
          THEN /\ IF SendOk(clients[e].conn, closed, peerOpen)
                  THEN /\ tx' = {Tx(clients[e].conn, notice)}
                       /\ Log(<< done >>)
                  ELSE /\ tx' = {}
                       /\ Log(<< "notice_send_error", done >>)
               /\ closed' = closed \cup {clients[e].conn}
               /\ clients' = RemoveAt(clients, e)
          ELSE /\ Log(<< done >>)
               /\ NoTx
               /\ UNCHANGED << closed, clients >>
    /\ players' = [players EXCEPT ![ctarget].connected = FALSE]
    /\ pc' = [pc EXCEPT ![MainThread] = "b1"]
    /\ UNCHANGED << banned_players, chat_messages, platforms, lock, workerVars,
                    snap, mainVars, peerOpen, budgetVars, wstat, frameVars, auxVars >>

Kick ==
    /\ pc[MainThread] = "kick"
    /\ Evict(KickFrame, "kicked")

\* self.server.banned_players.add(player.uuid), before the lock is taken
BanAdd ==
    /\ pc[MainThread] = "ban_add"
    /\ banned_players' = banned_players \cup {players[ctarget].uuid}
    /\ pc' = [pc EXCEPT ![MainThread] = "ban_kick"]
    /\ lastBan' = [id |-> cmd.args[1], uuid |-> players[ctarget].uuid,
                   before |-> banned_players]
    /\ NoLog /\ NoTx
    /\ UNCHANGED << players, clients, chat_messages, platforms, lock, workerVars,
                    snap, mainVars, closed, peerOpen, budgetVars, wstat, frameVars,
                    stalled, pending, behind, ticks, beacon, call, seen, client >>

BanKick ==
    /\ pc[MainThread] = "ban_kick"
    /\ Evict(BanFrame, "banned")

\* player.frozen = True, written without the lock
Freeze ==
    /\ pc[MainThread] = "freeze"
    /\ players' = [players EXCEPT ![ctarget].frozen = TRUE]
    /\ Log(<< "froze" >>)
    /\ pc' = [pc EXCEPT ![MainThread] = "b1"]
    /\ NoTx
    /\ UNCHANGED << clients, banned_players, chat_messages, platforms, lock,
                    workerVars, snap, mainVars, closed, peerOpen, budgetVars, wstat,
                    frameVars, auxVars >>

\* a faulty unban: the identifier is taken for the uuid, whatever it resolved to
UnbanByIdentifier ==
    /\ pc[MainThread] = "unban"
    /\ LET u == cmd.args[1]
       IN IF u \in banned_players
          THEN /\ banned_players' = banned_players \ {u}
               /\ Log(<< "unbanned" >>)
          ELSE /\ banned_players' = banned_players
               /\ Log(<< "no_banned_player" >>)
    /\ cmd' = NoCmd
    /\ ctarget' = 0
    /\ call' = NoCall
    /\ pc' = [pc EXCEPT ![MainThread] = "idle"]
    /\ NoTx
    /\ UNCHANGED << players, clients, chat_messages, platforms, lock, workerVars,
                    snap, closed, peerOpen, budgetVars, wstat, frameVars,
                    stalled, pending, behind, ticks, beacon, lastBan, seen, client >>

\* unban_player after the lookup: the ban set is read and written without the lock
Unban ==
    /\ pc[MainThread] = "unban"
    /\ LET u == IF ctarget = 0 THEN cmd.args[1] ELSE players[ctarget].uuid
       IN IF u \in banned_players
          THEN /\ banned_players' = banned_players \ {u}
               /\ Log(<< "unbanned" >>)
          ELSE /\ banned_players' = banned_players
               /\ Log(<< "no_banned_player" >>)
    /\ cmd' = NoCmd
    /\ ctarget' = 0
    /\ call' = NoCall
    /\ pc' = [pc EXCEPT ![MainThread] = "idle"]
    /\ NoTx
    /\ UNCHANGED << players, clients, chat_messages, platforms, lock, workerVars,
                    snap, closed, peerOpen, budgetVars, wstat, frameVars,
                    stalled, pending, behind, ticks, beacon, lastBan, seen, client >>

\* the handlers that write one field of the player without the lock, log and
\* call broadcast_game_state
WriteUnlocked(p, done) ==
    /\ players' = [players EXCEPT ![ctarget] = p]
    /\ Log(<< done >>)
    /\ pc' = [pc EXCEPT ![MainThread] = "b1"]
    /\ NoTx
    /\ UNCHANGED << clients, banned_players, chat_messages, platforms, lock,
                    workerVars, snap, mainVars, closed, peerOpen, budgetVars, wstat,
                    frameVars, auxVars >>

\* player.speed = speed
SetSpeed ==
    /\ pc[MainThread] = "set_speed"
    /\ WriteUnlocked([players[ctarget] EXCEPT !.speed = FloatOf(cmd.args[2])], "set_speed")

\* player.frozen = False
Unfreeze ==
    /\ pc[MainThread] = "unfreeze"
    /\ WriteUnlocked([players[ctarget] EXCEPT !.frozen = FALSE], "unfroze")

\* the velocity smite_player and launch_player write: 1000 and -1000
SmiteVelocity == 1000
LaunchVelocity == -1000

\* player.velocity_y = 1000
Smite ==
    /\ pc[MainThread] = "smite"
    /\ WriteUnlocked([players[ctarget] EXCEPT !.velocity_y = SmiteVelocity], "smote")

\* player.hat = hat_name; load_hat_image catches its own errors
GiveHat ==
    /\ pc[MainThread] = "give_hat"
    /\ WriteUnlocked([players[ctarget] EXCEPT !.hat = cmd.args[2]], "gave_hat")

\* player.gravity_direction = direction, the lowercased argument
ChangeGravity ==
    /\ pc[MainThread] = "change_gravity"
    /\ WriteUnlocked([players[ctarget] EXCEPT !.gravity_direction = Lower(cmd.args[2])],
                     "changed_gravity")

\* player.grid_y -= 0.5; the model's coordinates are integers, and one unit
\* stands for the half tile
Lift(y) == y - 1

\* launch_player, its first write, without the lock: the player is moved up
LaunchLift ==
    /\ pc[MainThread] = "launch_lift"
    /\ players' = [players EXCEPT ![ctarget].grid_y = Lift(@)]
    /\ wstat' = MarkWrite(wstat, MainThread, players[ctarget].uuid)
    /\ pc' = [pc EXCEPT ![MainThread] = "launch_velocity"]
    /\ NoLog /\ NoTx
    /\ UNCHANGED << clients, banned_players, chat_messages, platforms, lock,
                    workerVars, snap, mainVars, closed, peerOpen, budgetVars,
                    frameVars, auxVars >>

\* launch_player, its second write, without the lock: player.velocity_y = -1000
Launch ==
    /\ pc[MainThread] = "launch_velocity"
    /\ WriteUnlocked([players[ctarget] EXCEPT !.velocity_y = LaunchVelocity], "launched")

\* add_position: the locked write
AddPosition ==
    /\ pc[MainThread] = "add"
    /\ lock = NoThread
    /\ players' = [players EXCEPT ![ctarget].grid_x = @ + FloatOf(cmd.args[2]),
                                  ![ctarget].grid_y = @ + FloatOf(cmd.args[3])]
    /\ wstat' = MarkWrite(wstat, MainThread, players[ctarget].uuid)
    /\ Log(<< "moved" >>)
    /\ pc' = [pc EXCEPT ![MainThread] = "b1"]
    /\ NoTx
    /\ UNCHANGED << clients, banned_players, chat_messages, platforms, lock,
                    workerVars, snap, mainVars, closed, peerOpen, budgetVars,
                    frameVars, auxVars >>

\* self.server.chat_messages.append(("Server", ' '.join(args)))
Enqueue(ch, args) == Append(ch, [sender |-> "Server", message |-> args])

\* broadcast_message: the append, without the lock
BroadcastMessage ==
    /\ pc[MainThread] = "broadcast"
    /\ chat_messages' = Enqueue(chat_messages, cmd.args)
    /\ Log(<< "broadcasted" >>)
    /\ pc' = [pc EXCEPT ![MainThread] = "b1"]
    /\ NoTx
    /\ UNCHANGED << players, clients, banned_players, platforms, lock, workerVars,
                    snap, mainVars, closed, peerOpen, budgetVars, wstat, frameVars,
                    auxVars >>

\* list_players: a locked read and one message; no broadcast
ListPlayers ==
    /\ pc[MainThread] = "list"
    /\ lock = NoThread
    /\ Log(<< IF players = << >> THEN "no_players" ELSE "players" >>)
    /\ cmd' = NoCmd
    /\ ctarget' = 0
    /\ pc' = [pc EXCEPT ![MainThread] = "idle"]
    /\ NoTx
    /\ UNCHANGED << storeVars, lock, workerVars, snap, closed, peerOpen, budgetVars,
                    wstat, frameVars, auxVars >>

\* Platforms(x, y, w, h, platform_type): active, both timers 0
NewPlatform(x, y, w, h, type) ==
    [grid_x |-> x, grid_y |-> y, width_in_tiles |-> w, height_in_tiles |-> h,
     platform_type |-> type, active |-> TRUE, break_timer |-> 0, respawn_timer |-> 0]

\* make_platform: the locked append
MakePlatform ==
    /\ pc[MainThread] = "make_platform"
    /\ lock = NoThread
    /\ platforms' = Append(platforms,
                           NewPlatform(FloatOf(cmd.args[1]), FloatOf(cmd.args[2]),
                                       FloatOf(cmd.args[3]), FloatOf(cmd.args[4]),
                                       IF Len(cmd.args) = 5 THEN cmd.args[5] ELSE "normal"))
    /\ Log(<< "created_platform" >>)
    /\ pc' = [pc EXCEPT ![MainThread] = "b1"]
    /\ NoTx
    /\ UNCHANGED << players, clients, banned_players, chat_messages, lock, workerVars,
                    snap, mainVars, closed, peerOpen, budgetVars, wstat, frameVars,
                    auxVars >>

\* ------------------------------------------------------------- simulation loop
\* the time between two ticks, and the times after which a platform that broke
\* goes, a broken one comes back and a deadly one comes back, in seconds
DeltaTime == 1
BreakAfter == 1
RespawnAfter == 5
DeadlyRespawnAfter == 1

\* a faulty update: the platform that breaks keeps its break timer
PlatformUpdateKeepsTimer(p, dt) ==
    IF p.platform_type = "breakable"
    THEN IF ~p.active
         THEN IF p.respawn_timer + dt >= RespawnAfter
              THEN [p EXCEPT !.active = TRUE, !.respawn_timer = 0]
              ELSE [p EXCEPT !.respawn_timer = @ + dt]
         ELSE IF p.break_timer > 0
         THEN IF p.break_timer + dt >= BreakAfter
              THEN [p EXCEPT !.active = FALSE, !.break_timer = @ + dt]
              ELSE [p EXCEPT !.break_timer = @ + dt]
         ELSE p
    ELSE p

\* Platforms.update(delta_time)
PlatformUpdate(p, dt) ==
    IF p.platform_type = "breakable"
    THEN IF ~p.active
         THEN IF p.respawn_timer + dt >= RespawnAfter
              THEN [p EXCEPT !.active = TRUE, !.respawn_timer = 0]
              ELSE [p EXCEPT !.respawn_timer = @ + dt]
         ELSE IF p.break_timer > 0
         THEN IF p.break_timer + dt >= BreakAfter
              THEN [p EXCEPT !.active = FALSE, !.break_timer = 0]
              ELSE [p EXCEPT !.break_timer = @ + dt]
         ELSE p
    ELSE IF p.platform_type = "deadly" /\ ~p.active
    THEN IF p.respawn_timer + dt >= DeadlyRespawnAfter
         THEN [p EXCEPT !.active = TRUE, !.respawn_timer = 0]
         ELSE [p EXCEPT !.respawn_timer = @ + dt]
    ELSE p

\* Server.update, its first loop: every platform is updated, without the lock.
\* The main thread runs it between two rounds of events, so between commands.
UpdatePlatforms ==
    /\ pc[MainThread] = "idle"
    /\ platforms' = [i \in DOMAIN platforms |-> PlatformUpdate(platforms[i], DeltaTime)]
    /\ pc' = [pc EXCEPT ![MainThread] = "tick"]
    /\ NoLog /\ NoTx
    /\ UNCHANGED << players, clients, banned_players, chat_messages, lock, workerVars,
                    snap, mainVars, closed, peerOpen, budgetVars, wstat, frameVars,
                    auxVars >>

TickStart ==
    /\ ticks < MaxTicks
    /\ UpdatePlatforms

\* the same loop, over the longer run that lets a platform break and come back
LongTickStart ==
    /\ ticks < MaxPlatformTicks
    /\ UpdatePlatforms

\* player.rect.colliderect(platform.rect): the player is one tile wide and high
\* (20 by 20 pixels, TILE_SIZE = 20) and positions are whole tiles
CollideRect(p, pl) ==
    /\ p.grid_x < pl.grid_x + pl.width_in_tiles
    /\ pl.grid_x < p.grid_x + 1
    /\ p.grid_y < pl.grid_y + pl.height_in_tiles
    /\ pl.grid_y < p.grid_y + 1

\* check_player_platform_collisions for every connected player: an active
\* breakable platform a player touches starts its break timer at delta_time.
\* (The model has no platform of type "gravity".)
CheckPlatformCollisions(pls, ps, dt) ==
    [i \in DOMAIN pls |->
        IF /\ pls[i].active
           /\ pls[i].platform_type = "breakable"
           /\ pls[i].break_timer = 0
           /\ \E j \in DOMAIN ps : ps[j].connected /\ CollideRect(ps[j], pls[i])
        THEN [pls[i] EXCEPT !.break_timer = dt]
        ELSE pls[i]]

\* Server.update, its locked section: the collisions of the connected players
\* with the platforms.
TickLocked ==
    /\ pc[MainThread] = "tick"
    /\ lock = NoThread
    /\ platforms' = CheckPlatformCollisions(platforms, players, DeltaTime)
    /\ ticks' = ticks + 1
    /\ pc' = [pc EXCEPT ![MainThread] = "idle"]
    /\ NoLog /\ NoTx
    /\ UNCHANGED << players, clients, banned_players, chat_messages, lock, workerVars,
                    snap, mainVars, closed, peerOpen, budgetVars, wstat, frameVars,
                    stalled, pending, behind, beacon, histVars, client >>

\* ------------------------------------------------------------- discovery beacon
\* multicast_socket.sendto(...) returns: the announcement is out, and the thread
\* sleeps for BROADCAST_INTERVAL
BeaconSend ==
    /\ beacon = "send"
    /\ beacon' = "sleep"
    /\ NoLog /\ NoTx
    /\ UNCHANGED << storeVars, lock, pc, workerVars, snap, mainVars, closed, peerOpen,
                    budgetVars, wstat, frameVars, stalled, pending, behind, ticks, histVars, client >>

\* multicast_socket.sendto(...) raises: the error is printed, the loop is left
\* by 'break' and the socket is closed
BeaconFail ==
    /\ beacon = "send"
    /\ beacon' = "stopped"
    /\ NoLog /\ NoTx
    /\ UNCHANGED << storeVars, lock, pc, workerVars, snap, mainVars, closed, peerOpen,
                    budgetVars, wstat, frameVars, stalled, pending, behind, ticks, histVars, client >>

\* time.sleep returns: the next round of the loop
BeaconWake ==
    /\ beacon = "sleep"
    /\ beacon' = "send"
    /\ NoLog /\ NoTx
    /\ UNCHANGED << storeVars, lock, pc, workerVars, snap, mainVars, closed, peerOpen,
                    budgetVars, wstat, frameVars, stalled, pending, behind, ticks, histVars, client >>

\* ------------------------------------------------------------- framed transport
\* the byte values of the payloads
PayloadBytes == {0, 97}
Payloads == UNION { [1..n -> PayloadBytes] : n \in 0..MaxPayload }

\* n.to_bytes(4, byteorder='big')
ToBytes4(n) ==
    << (n \div 16777216) % 256, (n \div 65536) % 256, (n \div 256) % 256, n % 256 >>

\* int.from_bytes(bs, byteorder='big')
RECURSIVE FromBytes(_)
FromBytes(bs) ==
    IF bs = << >> THEN 0
    ELSE FromBytes(SubSeq(bs, 1, Len(bs) - 1)) * 256 + bs[Len(bs)]

\* sendall(length prefix + payload)
Framed(P) == ToBytes4(Len(P)) \o P

\* The stream reaches the socket in segments: bs cut after the positions in cuts.
RECURSIVE Segments(_, _)
Segments(bs, cuts) ==
    IF cuts = {} THEN << bs >>
    ELSE LET k == CHOOSE c \in cuts : \A d \in cuts : c <= d
         IN << SubSeq(bs, 1, k) >>
            \o Segments(SubSeq(bs, k + 1, Len(bs)), { c - k : c \in cuts \ {k} })

\* sock.recv(n): at most n bytes of the segment at the head; the empty string
\* when nothing is left (the peer has sent its frame and closed)
Recv(w, n) ==
    IF w = << >> THEN [data |-> << >>, rest |-> << >>]
    ELSE LET h == Head(w)
             k == IF n < Len(h) THEN n ELSE Len(h)
         IN [data |-> SubSeq(h, 1, k),
             rest |-> IF k = Len(h) THEN Tail(w)
                      ELSE << SubSeq(h, k + 1, Len(h)) >> \o Tail(w)]

\* recvall(sock, n) from 'data' on: ok = FALSE is the None it returns
RECURSIVE RecvAllFrom(_, _, _)
RecvAllFrom(w, n, data) ==
    IF Len(data) >= n THEN [ok |-> TRUE, data |-> data, rest |-> w]
    ELSE LET r == Recv(w, n - Len(data))
         IN IF r.data = << >> THEN [ok |-> FALSE, data |-> << >>, rest |-> r.rest]
            ELSE RecvAllFrom(r.rest, n, data \o r.data)
RecvAll(w, n) == RecvAllFrom(w, n, << >>)

\* what a read makes of the stream
NoRx == [status |-> "none", data |-> << >>]
RxFrame(data) == [status |-> "frame", data |-> data]
RxEnd == [status |-> "end", data |-> << >>]

\* a faulty handshake read: the bytes that came before the peer closed are
\* taken for the frame
HandshakeReadShort(w) ==
    LET pre == RecvAll(w, 4)
    IN IF ~pre.ok THEN [out |-> RxEnd, rest |-> pre.rest]
       ELSE [out |-> RxFrame(Recv(pre.rest, FromBytes(pre.data)).data), rest |-> << >>]

\* The handshake read: recvall(conn, 4), recvall(conn, data_length); whatever
\* the second call returns goes to pickle.loads, which raises on None.
HandshakeRead(w) ==
    LET pre == RecvAll(w, 4)
    IN IF ~pre.ok THEN [out |-> RxEnd, rest |-> pre.rest]
       ELSE LET body == RecvAll(pre.rest, FromBytes(pre.data))
            IN [out |-> IF body.ok THEN RxFrame(body.data) ELSE RxEnd, rest |-> body.rest]

\* The read of the streaming loop: conn.recv(4), recvall(conn, data_length), and
\* "if not data: break" after each.
StreamRead(w) ==
    LET pre == Recv(w, 4)
    IN IF pre.data = << >> THEN [out |-> RxEnd, rest |-> pre.rest]
       ELSE LET body == RecvAll(pre.rest, FromBytes(pre.data))
            IN [out |-> IF body.ok /\ body.data # << >> THEN RxFrame(body.data) ELSE RxEnd,
                rest |-> body.rest]

\* pickle.loads raises on the empty string
Deserializes(data) == data # << >>

\* The client sends one frame with payload P; it arrives cut after 'cuts'.
ClientSend(P, cuts) ==
    /\ rxpath \in {"handshake", "stream"}
    /\ wire = << >>
    /\ wire' = Segments(Framed(P), cuts)
    /\ payload' = P
    /\ rxout' = NoRx
    /\ UNCHANGED << rxpath, serverVars >>

\* The client sends the first k bytes of a frame with payload P and closes.
ClientSendPart(P, cuts, k) ==
    /\ rxpath \in {"handshake", "stream"}
    /\ wire = << >>
    /\ k < Len(Framed(P))
    /\ wire' = Segments(SubSeq(Framed(P), 1, k), cuts)
    /\ payload' = P
    /\ rxout' = NoRx
    /\ UNCHANGED << rxpath, serverVars >>

\* The worker reads the identity frame.
ReadHandshake ==
    /\ rxpath = "handshake"
    /\ wire # << >>
    /\ LET r == HandshakeRead(wire)
       IN /\ rxout' = r.out
          /\ wire' = r.rest
          /\ rxpath' = IF r.out.status = "frame" /\ Deserializes(r.out.data)
                       THEN "stream" ELSE "closed"
    /\ UNCHANGED << payload, serverVars >>

\* The worker of connection c after its handshake read has failed: the except
\* branch, or the branch of the empty length prefix.
WireFail(c) ==
    /\ rxpath = "closed"
    /\ HandshakeFail(c)

\* The worker of connection c after its handshake read has given a frame that
\* deserializes to the record r.
WireHandshake(c, r) ==
    /\ rxpath = "stream"
    /\ Handshake(c, r)

\* The worker reads a frame in its streaming loop.
ReadStream ==
    /\ rxpath = "stream"
    /\ wire # << >>
    /\ LET r == StreamRead(wire)
       IN /\ rxout' = r.out
          /\ wire' = r.rest
          /\ rxpath' = IF r.out.status = "frame" THEN "stream" ELSE "closed"
    /\ UNCHANGED << payload, serverVars >>

\* ------------------------------------------------------------- specification
\* the level of Server.__init__ (create_platforms), two tiles of it
InitPlatforms ==
    << [grid_x |-> 0, grid_y |-> 29, width_in_tiles |-> 1, height_in_tiles |-> 1,
        platform_type |-> "normal", active |-> TRUE, break_timer |-> 0, respawn_timer |-> 0],
       [grid_x |-> 10, grid_y |-> 16, width_in_tiles |-> 1, height_in_tiles |-> 1,
        platform_type |-> "deadly", active |-> TRUE, break_timer |-> 0, respawn_timer |-> 0] >>

\* the server after Server.__init__, with the inputs its clients and its
\* operator may still give
InitServer(frames, cmds) ==
    /\ players = << >>
    /\ clients = << >>
    /\ banned_players = {}
    /\ chat_messages = << >>
    /\ platforms = InitPlatforms
    /\ lock = NoThread
    /\ logged = << >>
    /\ pc = [t \in Threads |-> IF t = MainThread THEN "idle" ELSE "init"]
    /\ hs = [c \in Conns |-> NoHandshake]
    /\ wplayer = [c \in Conns |-> 0]
    /\ frame = [c \in Conns |-> NoPosFrame]
    /\ snap = [t \in Threads |-> NoSnap]
    /\ cmd = NoCmd
    /\ ctarget = 0
    /\ closed = {}
    /\ peerOpen = [c \in Conns |-> TRUE]
    /\ tx = {}
    /\ framesLeft = frames
    /\ cmdsLeft = cmds
    /\ wstat = [t \in Threads |-> "none"]
    /\ stalled = {}
    /\ pending = << >>
    /\ behind = {}
    /\ ticks = 0
    /\ beacon = "send"
    /\ call = NoCall
    /\ lastBan = NoBan
    /\ seen = 0
    /\ client = InitClient

\* the transport of a connection: nothing sent yet, the worker at 'path'
InitTransport(path) ==
    /\ wire = << >>
    /\ payload = << >>
    /\ rxpath = path
    /\ rxout = NoRx

Worker(c, records, frames) ==
    \/ HandshakeFail(c)
    \/ \E r \in records : Handshake(c, r)
    \/ Bind(c)
    \/ SendInit(c)
    \/ \E f \in frames : RecvFrame(c, f)
    \/ RecvEnd(c)
    \/ ApplyCheck(c)
    \/ ApplyWrite(c)
    \/ Teardown(c)
    \/ ClientClose(c)

Operator(lines) ==
    \/ \E line \in lines : StartCommand(line)
    \/ Resolve
    \/ Teleport
    \/ Kick
    \/ BanAdd
    \/ BanKick
    \/ Freeze
    \/ Unban

\* the handlers of the registry that Operator leaves out
Handlers ==
    \/ AddPosition
    \/ BroadcastMessage
    \/ SetSpeed
    \/ Unfreeze
    \/ ListPlayers
    \/ MakePlatform
    \/ Smite
    \/ LaunchLift
    \/ Launch
    \/ GiveHat
    \/ ChangeGravity

Broadcast(t) ==
    \/ Snapshot(t)
    \/ SendAll(t)
    \/ ClearChat(t)

\* the lines the operator enters: the ones a handler carries out ...
AcceptedLines ==
    { << "teleport", "u1", "7", "2" >>,
      << "kick", "u1" >>,
      << "ban", "u1" >>,
      << "freeze", "u1" >>,
      << "unban", "ghost" >> }

\* ... and the ones that are turned down: no such command, a wrong number of
\* arguments, a number that does not parse, an identifier no player has
RejectedLines ==
    { << "fly", "u1" >>,
      << "Teleport", "u1", "7" >>, << "teleport", "u1", "x", "2" >>,
      << "setpos", "ghost", "7", "2" >>,
      << "add", "u1", "7" >>, << "add", "u1", "7", "x" >>, << "add", "ghost", "7", "2" >>,
      << "kick" >>, << "KICK", "ghost" >>,
      << "ban", "u1", "now" >>, << "ban", "ghost" >>,
      << "unban" >>, << "broadcast" >>,
      << "set_speed", "u1" >>, << "set_speed", "u1", "fast" >>,
      << "set_speed", "ghost", "7" >>,
      << "freeze" >>, << "freeze", "ghost" >>,
      << "unfreeze" >>, << "unfreeze", "ghost" >>,
      << "make_platform", "7", "2", "2" >>, << "make_platform", "7", "2", "2.5", "2" >>,
      << "smite" >>, << "smite", "ghost" >>,
      << "launch" >>, << "launch", "ghost" >>,
      << "give_hat", "u1" >>, << "give_hat", "ghost", "cap.png" >>,
      << "change_gravity", "u1" >>, << "change_gravity", "ghost", "UP" >> }

CommandLines == AcceptedLines \cup RejectedLines

\* The server with its operator: MaxSessions connections, any identity.
Init == InitServer(MaxFrames, MaxCmds) /\ InitTransport("none")

Next ==
    \/ \E c \in Sessions : Worker(c, HandshakeRecords, StreamFrames)
    \/ \E t \in Threads : Broadcast(t)
    \/ Operator(CommandLines)

Spec == Init /\ [][Next]_vars

\* one accepted line for every handler of the registry
HandlerLines ==
    { << "teleport", "u1", "7", "2" >>, << "add", "u1", "7", "2" >>,
      << "kick", "u1" >>, << "ban", "u1" >>, << "unban", "u1" >>,
      << "broadcast", "hi" >>, << "set_speed", "u1", "7" >>,
      << "freeze", "u1" >>, << "unfreeze", "u1" >>, << "list" >>,
      << "make_platform", "7", "2", "2", "2", "breakable" >>,
      << "smite", "u1" >>, << "launch", "u1" >>, << "give_hat", "u1", "cap.png" >>,
      << "change_gravity", "u1", "UP" >>, << "help" >> }

\* The operator's commands one after the other, with one client (its own
\* identity, one streaming frame).
InitCommands == InitServer(MaxFrames, MaxOperatorCmds) /\ InitTransport("none")

NextCommands ==
    \/ Worker(1, {OwnRecord(1)}, {PosOnlyFrame})
    \/ \E t \in {MainThread, 1} : Broadcast(t)
    \/ Operator(HandlerLines)
    \/ Handlers

SpecCommands == InitCommands /\ [][NextCommands]_vars

\* The server with clients that stop reading: MaxSessions connections, each
\* with its own identity, and the simulation loop.
InitStall == InitServer(MaxStallFrames, 0) /\ InitTransport("none")

\* the steps of the worker of connection c, its broadcast cycles included
WorkerSteps(c) ==
    \/ Worker(c, {OwnRecord(c)}, {PosOnlyFrame})
    \/ Broadcast(c)
    \/ SendBlocked(c)
    \/ SendResume(c)

NextStall ==
    \/ \E c \in Sessions : WorkerSteps(c)
    \/ \E c \in Sessions : ClientStall(c)
    \/ TickStart
    \/ TickLocked

SpecStall == InitStall /\ [][NextStall]_vars

\* the steps of connection c that its worker takes by itself: the handshake, the
\* frames and the closing of the socket are the client's
ThreadSteps(c) ==
    \/ Bind(c)
    \/ SendInit(c)
    \/ ApplyCheck(c)
    \/ ApplyWrite(c)
    \/ Teardown(c)
    \/ Broadcast(c)
    \/ SendBlocked(c)
    \/ SendResume(c)

\* Every thread that can run is scheduled, also one that waits for a lock that
\* is released again and again.
SpecStallFair ==
    /\ SpecStall
    /\ \A c \in Sessions : SF_vars(ThreadSteps(c))
    /\ SF_vars(TickStart \/ TickLocked)

\* The discovery beacon next to MaxSessions connections.
InitBeacon == InitServer(MaxFrames, 0) /\ InitTransport("none")

NextBeacon ==
    \/ BeaconSend
    \/ BeaconFail
    \/ BeaconWake
    \/ \E c \in Sessions : Worker(c, {OwnRecord(c)}, {PosOnlyFrame})
    \/ \E c \in Sessions : Broadcast(c)

SpecBeacon == InitBeacon /\ [][NextBeacon]_vars

\* The streaming loop against frames that cannot be applied: MaxSessions
\* connections, each with its own identity.
InitStream == InitServer(MaxStallFrames, 0) /\ InitTransport("none")

NextStream ==
    \/ \E c \in Sessions : Worker(c, {OwnRecord(c)}, {FullFrame} \cup UnappliedFrames)
    \/ \E c \in Sessions : Broadcast(c)

SpecStream == InitStream /\ [][NextStream]_vars

\* the steps of a connection that never streams
Joining(c, records) ==
    \/ HandshakeFail(c)
    \/ \E r \in records : Handshake(c, r)
    \/ Bind(c)
    \/ SendInit(c)
    \/ RecvEnd(c)
    \/ Teardown(c)
    \/ ClientClose(c)

\* identities whose usernames collide with each other and with a uuid
NamedRecords ==
    { [uuid |-> "u1", username |-> "Bob", hat |-> NoHat],
      [uuid |-> "u2", username |-> "Bob", hat |-> NoHat],
      [uuid |-> "u2", username |-> "u1", hat |-> NoHat] }

\* lines that name their player by uuid, by username, or not at all
NamingLines ==
    { << "teleport", "u1", "7", "2" >>, << "teleport", "Bob", "7", "2" >>,
      << "kick", "u1" >>, << "kick", "Bob" >>,
      << "ban", "u1" >>, << "ban", "Bob" >>, << "ban", "ghost" >>,
      << "unban", "u1" >>, << "unban", "Bob" >>,
      << "freeze", "u1" >>, << "freeze", "Bob" >>, << "freeze", "ghost" >> }

\* The operator's commands against players that join, leave and join again:
\* MaxSessions connections that never stream.
InitNaming == InitServer(0, MaxOperatorCmds) /\ InitTransport("none")

NextNaming ==
    \/ \E c \in Sessions : Joining(c, NamedRecords)
    \/ Broadcast(MainThread)
    \/ Operator(NamingLines)

SpecNaming == InitNaming /\ [][NextNaming]_vars

\* The handshake of one connection from the bytes that reach its socket: whole
\* frames and frames cut short, in segments cut in every way.
InitWire == InitServer(0, 0) /\ InitTransport("handshake")

NextWire ==
    \/ \E P \in Payloads : \E cuts \in SUBSET (1..(Len(P) + 3)) : ClientSend(P, cuts)
    \/ \E P \in Payloads : \E k \in 1..(Len(P) + 3) :
          \E cuts \in SUBSET (1..(k - 1)) : ClientSendPart(P, cuts, k)
    \/ ReadHandshake
    \/ WireFail(1)
    \/ WireHandshake(1, OwnRecord(1))
    \/ Bind(1)
    \/ SendInit(1)
    \/ RecvEnd(1)
    \/ Teardown(1)
    \/ ClientClose(1)

SpecWire == InitWire /\ [][NextWire]_vars

\* The simulation loop over a run long enough for a platform to break and to
\* come back: one client that joins at the spawn point and leaves, and an
\* operator who makes platforms, on the spawn point and away from it.
PlatformLines ==
    { << "make_platform", "2", "7", "2", "7", "breakable" >>,
      << "make_platform", "7", "2", "2", "2", "breakable" >>,
      << "make_platform", "2", "7", "2", "7", "deadly" >> }

InitPlatformRun == InitServer(0, MaxOperatorCmds) /\ InitTransport("none")

NextPlatformRun ==
    \/ Joining(1, {OwnRecord(1)})
    \/ \E line \in PlatformLines : StartCommand(line)
    \/ MakePlatform
    \/ Broadcast(MainThread)
    \/ LongTickStart
    \/ TickLocked

SpecPlatforms == InitPlatformRun /\ [][NextPlatformRun]_vars

\* Clients of which one announces itself without a uuid: init_data.get('uuid')
\* is then None.  MaxSessions connections, MaxFrames streaming frames.
NoIdentityRecords ==
    { [uuid |-> NoneUuid, username |-> "Player", hat |-> NoHat],
      [uuid |-> "u1", username |-> "Alice", hat |-> NoHat] }

InitNoIdentity == InitServer(MaxFrames, 0) /\ InitTransport("none")

NextNoIdentity ==
    \/ \E c \in Sessions : Worker(c, NoIdentityRecords, {PosOnlyFrame})
    \/ \E c \in Sessions : Broadcast(c)

SpecNoIdentity == InitNoIdentity /\ [][NextNoIdentity]_vars

\* conn.sendall of the initial position snapshot, seen as an operation that
\* takes time: the worker enters it, without the lock ...
SendInitBegin(c) ==
    /\ pc[c] = "sendinit"
    /\ pc' = [pc EXCEPT ![c] = "initsend"]
    /\ NoLog /\ NoTx
    /\ UNCHANGED << storeVars, lock, workerVars, snap, mainVars, closed, peerOpen,
                    budgetVars, wstat, frameVars, auxVars >>

\* ... and it returns or raises
SendInitEnd(c) ==
    /\ pc[c] = "initsend"
    /\ IF SendOk(c, closed, peerOpen)
       THEN /\ tx' = {Tx(c, InitFrame(players[wplayer[c]]))}
            /\ closed' = closed
            /\ pc' = [pc EXCEPT ![c] = "recv"]
       ELSE /\ tx' = {}
            /\ closed' = closed \cup {c}
            /\ pc' = [pc EXCEPT ![c] = "done"]
    /\ wplayer' = [wplayer EXCEPT ![c] = 0]
    /\ NoLog
    /\ UNCHANGED << storeVars, lock, hs, frame, snap, mainVars, peerOpen,
                    budgetVars, wstat, frameVars, auxVars >>

\* the worker of a connection that never streams, its sendall in two steps
JoiningSlowly(c, records) ==
    \/ HandshakeFail(c)
    \/ \E r \in records : Handshake(c, r)
    \/ Bind(c)
    \/ SendInitBegin(c)
    \/ SendInitEnd(c)
    \/ RecvEnd(c)
    \/ Teardown(c)
    \/ ClientClose(c)

\* The sends to one socket: MaxSessions connections that join while the
\* operator's command is carried out and broadcast.
InitSends == InitServer(0, MaxCmds) /\ InitTransport("none")

NextSends ==
    \/ \E c \in Sessions : JoiningSlowly(c, HandshakeRecords)
    \/ Broadcast(MainThread)
    \/ Operator(AcceptedLines)

SpecSends == InitSends /\ [][NextSends]_vars

\* The broadcast engine alone: MaxConns connections, each with its own identity,
\* and no operator.
InitBroadcast == InitServer(MaxFrames, 0) /\ InitTransport("none")

NextBroadcast ==
    \/ \E c \in Conns : Worker(c, {OwnRecord(c)}, {PosOnlyFrame})
    \/ \E t \in Conns : Broadcast(t)

SpecBroadcast == InitBroadcast /\ [][NextBroadcast]_vars

\* The framed transport of one connection: the frames of its client, cut in
\* every way, against the two reads of its worker.
InitFrames == InitServer(0, 0) /\ InitTransport("handshake")

NextFrames ==
    \/ \E P \in Payloads : \E cuts \in SUBSET (1..(Len(P) + 3)) : ClientSend(P, cuts)
    \/ ReadHandshake
    \/ ReadStream

SpecFrame == InitFrames /\ [][NextFrames]_vars

\* ------------------------------------------------------------- properties
\* the steps of a thread, by the positions they join
BindStep(c) == pc[c] = "bind" /\ pc'[c] = "sendinit"
SendStep(t) == pc[t] = "b2" /\ pc'[t] = "b3"
Entries(cl) == { cl[i] : i \in DOMAIN cl }
\* the position of player i in a frame
PosIn(data, i) == << data.players[i].grid_x, data.players[i].grid_y >>
\* the player (index) a connection of the table is bound to
BoundPlayer(c) == PlayersGet(players, ClientsGet(clients, c))

C2_RebindKeepsPlayerState ==
    [][ \A c \in Conns : (BindStep(c) /\ PlayersHas(players, hs[c].uuid)) =>
            LET i == PlayersGet(players, hs[c].uuid)
            IN /\ DOMAIN players' = DOMAIN players
               /\ players'[i] = [players[i] EXCEPT !.connected = TRUE,
                                                   !.username = hs[c].username,
                                                   !.hat = hs[c].hat]
               /\ \A j \in DOMAIN players : j # i => players'[j] = players[j]
      ]_vars

\* a player that has moved away from the spawn point has just been bound again,
\* under another username and hat
C2_Witness ==
    /\ logged # << >>
    /\ logged[Len(logged)] = "reconnected"
    /\ \E c \in Conns :
          /\ pc[c] = "sendinit"
          /\ wplayer[c] # 0
          /\ players[wplayer[c]].username = "Bob"
          /\ players[wplayer[c]].hat = "cap.png"
          /\ << players[wplayer[c]].grid_x, players[wplayer[c]].grid_y >> # << SpawnX, SpawnY >>

\* C3: a position update processed while its player is frozen changes no
\* player and goes on to the broadcast; processed while the player is not
\* frozen it writes the frame's position, and the frame's velocity and gravity
\* direction when the frame carries them, to that player.
C3_FrozenIgnoresUpdate ==
    [][ \A c \in Conns :
          /\ (pc[c] = "apply" /\ pc'[c] # "apply" /\ ClientsHas(clients, c)) =>
                IF players[BoundPlayer(c)].frozen
                THEN players' = players /\ pc'[c] = "b1"
                ELSE pc'[c] = "write" /\ wplayer'[c] = BoundPlayer(c)
          /\ (pc[c] = "write" /\ pc'[c] # "write") =>
                LET i == wplayer[c]
                    f == frame[c]
                IN /\ pc'[c] = "b1"
                   /\ << players'[i].grid_x, players'[i].grid_y >> = f.position
                   /\ players'[i].velocity_x = IF f.hasVel THEN f.velocity_x
                                               ELSE players[i].velocity_x
                   /\ players'[i].velocity_y = IF f.hasVel THEN f.velocity_y
                                               ELSE players[i].velocity_y
                   /\ players'[i].gravity_direction =
                         IF f.hasGrav THEN f.gravity_direction
                         ELSE players[i].gravity_direction
      ]_vars

\* the update of a frozen player has been processed: nothing was written and
\* the worker is at its broadcast, the player not where the frame says
C3_Witness ==
    \E c \in Conns :
        /\ pc[c] = "b1"
        /\ frame[c].hasPos
        /\ wstat[c] = "none"
        /\ wplayer[c] # 0
        /\ players[wplayer[c]].frozen
        /\ << players[wplayer[c]].grid_x, players[wplayer[c]].grid_y >> # frame[c].position

\* C4: a handshake whose identity is in the ban set when the ban check runs
\* gets the rejection frame, once, and its socket is closed; clients and
\* players stay as they are.  Only an identity that is not banned goes on to
\* the bind step.
C4_BannedHandshakeRejected ==
    [][ \A c \in Conns :
          /\ (pc[c] = "init" /\ pc'[c] = "bind") => hs'[c].uuid \notin banned_players
          /\ (pc[c] = "init" /\ pc'[c] # "init"
                 /\ logged' # << >> /\ logged'[1] = "banned_attempt") =>
                /\ pc'[c] = "rejected"
                /\ tx' = IF SendOk(c, closed, peerOpen) THEN {Tx(c, BanFrame)} ELSE {}
                /\ closed' = closed \cup {c}
                /\ clients' = clients
                /\ players' = players
      ]_vars

\* a banned identity has just been turned away, and its player record and the
\* table are there to be left alone
C4_Witness ==
    /\ logged = << "banned_attempt" >>
    /\ banned_players = {"u1"}
    /\ \E c \in Conns : pc[c] = "rejected" /\ c \in closed /\ tx = {Tx(c, BanFrame)}
    /\ PlayersHas(players, "u1")
    /\ clients # << >>

\* C5: in the send pass of a broadcast cycle every connection of the table
\* whose send succeeds is sent the cycle's frame and stays in the table; every
\* one whose send fails is closed and removed from the table and its player is
\* marked not connected.  A failure does not end the pass.
C5_SendFailureIsolated ==
    [][ \A t \in Threads : SendStep(t) =>
          \A i \in DOMAIN clients :
             LET c == clients[i].conn
             IN IF SendOk(c, closed, peerOpen)
                THEN /\ Tx(c, StateFrame(snap[t])) \in tx'
                     /\ ClientsHas(clients', c)
                     /\ c \notin closed'
                ELSE /\ \A m \in tx' : m.conn # c
                     /\ c \in closed'
                     /\ ~ClientsHas(clients', c)
                     /\ ~players'[PlayersGet(players, clients[i].uuid)].connected
      ]_vars

\* a pass has just failed on one connection and sent its frame to two others,
\* one of them bound after the one that failed
C5_Witness ==
    /\ logged = << "send_error" >>
    /\ Cardinality(tx) = 2
    /\ \E i, j \in DOMAIN players :
          /\ i < j
          /\ ~players[i].connected
          /\ \E e \in Entries(clients) : e.uuid = players[j].uuid /\ (\E m \in tx : m.conn = e.conn)

\* C6 as stated: whenever a worker has written an update, every frame its
\* broadcast cycle sends carries the update's position for that player.
C6_AsStated ==
    [][ \A c \in Conns : (SendStep(c) /\ wstat[c] # "none") =>
            \A m \in tx' : PosIn(m.data, wplayer[c]) = frame[c].position
      ]_vars

\* C6: when a worker has written an update and no other thread has written
\* that player's position before the worker's cycle takes its snapshot, every
\* frame the cycle sends is that snapshot and carries the update's position.
C6_UpdateReachesBroadcast ==
    [][ \A c \in Conns : (SendStep(c) /\ wstat[c] = "fresh") =>
            \A m \in tx' : /\ m.data = StateFrame(snap[c])
                           /\ PosIn(m.data, wplayer[c]) = frame[c].position
      ]_vars

\* the one frame of the run has been applied and its worker's cycle has just
\* sent the new position to both connections of the table
C6_Witness ==
    /\ framesLeft = 0
    /\ cmdsLeft = MaxCmds
    /\ Cardinality(tx) = 2
    /\ \E c \in Conns : pc[c] = "b3"
    /\ \A m \in tx : /\ m.data.kind = "state"
                     /\ \E i \in DOMAIN m.data.players : PosIn(m.data, i) = FullFrame.position

\* C7 as stated: every frame the broadcast cycle of a teleport sends carries
\* the command's coordinates for the player.
C7_AsStated ==
    [][ (SendStep(MainThread) /\ cmd.name \in {"teleport", "setpos"}) =>
            \A m \in tx' : PosIn(m.data, ctarget) = << FloatOf(cmd.args[2]), FloatOf(cmd.args[3]) >>
      ]_vars

\* C7: when no streaming update has written the player's position between the
\* write of a teleport and the snapshot of its cycle, every frame the cycle
\* sends carries the command's coordinates for the player.
C7_TeleportReachesBroadcast ==
    [][ (SendStep(MainThread) /\ cmd.name \in {"teleport", "setpos"}
            /\ wstat[MainThread] = "fresh") =>
            \A m \in tx' : /\ m.data = StateFrame(snap[MainThread])
                           /\ PosIn(m.data, ctarget) =
                                 << FloatOf(cmd.args[2]), FloatOf(cmd.args[3]) >>
      ]_vars

\* no frame has been streamed, and the cycle of the teleport has just sent the
\* coordinates 7, 2 to a connection
C7_Witness ==
    /\ framesLeft = MaxFrames
    /\ pc[MainThread] = "b3"
    /\ tx # {}
    /\ \A m \in tx : /\ m.data.kind = "state"
                     /\ \E i \in DOMAIN m.data.players : PosIn(m.data, i) = << 7, 2 >>

\* the lines of RejectedLines, by what is wrong with them
UnknownLines == { l \in RejectedLines : Lower(l[1]) \notin Registry }
ArityLines ==
    { l \in RejectedLines :
        \/ Lower(l[1]) \in {"teleport", "setpos", "add"} /\ Len(l) # 4
        \/ Lower(l[1]) \in {"kick", "ban", "unban", "freeze", "unfreeze", "smite", "launch"}
              /\ Len(l) # 2
        \/ Lower(l[1]) \in {"set_speed", "give_hat", "change_gravity"} /\ Len(l) # 3
        \/ Lower(l[1]) = "broadcast" /\ Len(l) = 1
        \/ Lower(l[1]) = "make_platform" /\ Len(l) \notin {5, 6} }
NumberLines == { l \in RejectedLines \ ArityLines : \E k \in DOMAIN l : l[k] \in {"x", "fast", "2.5"} }
\* no player has this uuid or this username
NoSuchPlayer(id) == \A i \in DOMAIN players : players[i].uuid # id /\ players[i].username # id

\* C8: a line with an unknown command, a wrong number of arguments or a number
\* that does not parse, and a line whose identifier no player has, adds one
\* message to the operator log, changes none of players, platforms, the ban
\* set, the connection table and the chat queue, sends nothing, and returns
\* the main thread to its loop without a broadcast cycle.
C8_RejectedCommandNoEffect ==
    [][ /\ cmdsLeft' # cmdsLeft =>
              \A l \in UnknownLines \cup ArityLines \cup NumberLines : StartCommand(l) =>
                 /\ Len(logged') = 1
                 /\ logged'[1] \in {"unknown", "usage", "not_a_number"}
                 /\ pc'[MainThread] = "idle"
                 /\ tx' = {}
                 /\ UNCHANGED storeVars
        /\ (pc[MainThread] = "resolve" /\ pc'[MainThread] # "resolve"
               /\ cmd.name # "unban" /\ NoSuchPlayer(cmd.args[1])) =>
              /\ logged' = << "no_player" >>
              /\ pc'[MainThread] = "idle"
              /\ tx' = {}
              /\ UNCHANGED storeVars
      ]_vars

\* a line has just been turned down for its identifier while two players are
\* connected
C8_Witness ==
    /\ logged = << "no_player" >>
    /\ pc[MainThread] = "idle"
    /\ Len(clients) = 2
    /\ Len(players) = 2

\* C9 as stated: whatever a read of the server makes of the stream of a frame,
\* it is the frame, with the payload that was sent.
C9_FrameReceivedAsSent ==
    rxout.status # "none" => rxout = RxFrame(payload)

\* C10 as stated: a worker that has completed the bind step and has
\* terminated has left no entry for its connection in the table, and its
\* socket is closed.
C10_TerminatedWorkerTornDown ==
    \A c \in Conns : pc[c] = "done" => ~ClientsHas(clients, c) /\ c \in closed

\* C11 as stated: no entry of the connection table refers to a socket the
\* server has closed.
C11_NoClosedSocketInTable ==
    \A i \in DOMAIN clients : clients[i].conn \notin closed

\* C12 as stated: a chat line is in the snapshot of at most one broadcast cycle.
\* The operator's thread alone enqueues, and the queue is only emptied by a
\* cycle that has sent its frame: two cycles that both hold a serialized
\* snapshot with chat lines hold a line in common.
C12_ChatLineInOneSnapshot ==
    \A t, s \in Threads :
        t # s /\ pc[t] = "b2" /\ pc[s] = "b2" =>
            snap[t].chat = << >> \/ snap[s].chat = << >>

\* the positions of the main thread inside a command handler
InHandler == pc[MainThread] \notin {"idle", "b1", "b2", "b3", "send", "tick"}

\* C13 as stated: every write of an operator command to the players, the
\* platforms, the ban set or the chat queue is made while the command thread
\* holds the lock, so never while another thread holds it.
C13_CommandWritesHoldLock ==
    [][ ( /\ InHandler
          /\ pc'[MainThread] # pc[MainThread]
          /\ \/ players' # players
             \/ platforms' # platforms
             \/ banned_players' # banned_players
             \/ chat_messages' # chat_messages )
        => lock = NoThread ]_vars

\* C14 as stated: a command that has mutated shared state triggers one broadcast
\* cycle after its mutation, so no handler returns to the event loop from a step
\* that has written to the players, the platforms, the ban set or the chat queue.
C14_MutationIsBroadcast ==
    [][ InHandler /\ pc'[MainThread] = "idle"
        => /\ players' = players
           /\ platforms' = platforms
           /\ banned_players' = banned_players
           /\ chat_messages' = chat_messages ]_vars

\* C15 as stated: no thread is inside a socket send while it holds the lock.
C15_NoSendUnderLock ==
    \A t \in Threads : pc[t] = "send" => lock # t

\* C16 as stated: whatever a client does, a worker that has received a frame
\* gets the lock for its update, and a tick of the simulation loop that has
\* started gets the lock and completes.
C16_StallIsolated ==
    /\ \A c \in Sessions : (pc[c] = "apply") ~> (pc[c] # "apply")
    /\ (pc[MainThread] = "tick") ~> (pc[MainThread] = "idle")

\* C17 as stated: a datagram that fails to send does not end the beacon's loop,
\* which nothing else ends: the beacon never stops.
C17_BeaconKeepsRunning == beacon # "stopped"

\* C18 as stated: a frame that cannot be applied changes no player: the step
\* that takes a worker from the frame to its teardown leaves the players as
\* they were.
C18_UnappliedFrameNoEffect ==
    [][ \A c \in Conns :
            pc[c] \in {"recv", "apply", "write"} /\ pc'[c] = "teardown"
            => players' = players ]_vars

\* C19 as stated: no snapshot shows a mutation of several fields half-applied,
\* so none is taken between the two writes of launch_player.
C19_SnapshotAtOneInstant ==
    [][ \A t \in Threads :
            pc[t] = "b1" /\ pc'[t] = "b2" => pc[MainThread] # "launch_velocity" ]_vars

\* C20 as stated: the frame a cycle sends is the most recent snapshot taken by
\* any cycle, so no cycle sends a frame after another cycle has taken a later
\* snapshot.
C20_SendsLatestSnapshot ==
    [][ \A t \in Threads : SendStep(t) /\ tx' # {} => t \notin behind ]_vars

\* C21: the bind step of a handshake whose identity is not in the players map
\* adds exactly one player, at (2, 10) with velocity (0, 0), speed 300, not
\* frozen, gravity down, connected, with the username and the hat of the
\* handshake, leaves the other players as they were, and adds the binding of
\* the connection to the table in the same step.
C21_NewPlayerDefaults ==
    [][ \A c \in Conns :
            BindStep(c) /\ ~PlayersHas(players, hs[c].uuid)
            => /\ Len(players') = Len(players) + 1
               /\ SubSeq(players', 1, Len(players)) = players
               /\ players'[Len(players')] =
                     [uuid |-> hs[c].uuid, grid_x |-> 2, grid_y |-> 10,
                      velocity_x |-> 0, velocity_y |-> 0, speed |-> 300,
                      frozen |-> FALSE, username |-> hs[c].username, hat |-> hs[c].hat,
                      gravity_direction |-> "down", connected |-> TRUE]
               /\ clients' = Append(clients, [conn |-> c, uuid |-> hs[c].uuid]) ]_vars

\* a new player has just been created and bound, next to an older one
C21_Witness ==
    \E c \in Conns :
        /\ pc[c] = "sendinit"
        /\ logged = << "connected" >>
        /\ Len(players) = 2
        /\ ClientsGet(clients, c) = players[2].uuid

\* C22: the lookup of a player-targeting command gives the player whose uuid
\* is the identifier when there is one, also when the username of a player
\* enumerated before it is the same string; otherwise the first player in
\* enumeration order whose username is the identifier; otherwise no player.
C22_ResolutionOrder ==
    [][ pc[MainThread] = "resolve" /\ pc'[MainThread] # "resolve" =>
        LET id == cmd.args[1]
            found == IF pc'[MainThread] = "idle" THEN 0 ELSE ctarget'
        IN IF \E i \in DOMAIN players : players[i].uuid = id
           THEN found # 0 /\ players[found].uuid = id
           ELSE IF \E i \in DOMAIN players : players[i].username = id
           THEN /\ found # 0
                /\ players[found].username = id
                /\ \A j \in 1..(found - 1) : players[j].username # id
           ELSE found = 0 ]_vars

\* a command has resolved "u1" to the second player, whose uuid it is, while
\* the first player's username is "u1"
C22_Witness ==
    /\ pc[MainThread] \in {"teleport", "kick", "ban_add", "freeze", "unban"}
    /\ cmd.args[1] = "u1"
    /\ Len(players) = 2
    /\ players[1].username = "u1"
    /\ ctarget = 2

\* the bytes of the segments, in a row
RECURSIVE Flat(_)
Flat(w) == IF w = << >> THEN << >> ELSE Head(w) \o Flat(Tail(w))

\* C23: the handshake read goes on to the bind only when the bytes on the socket
\* are a whole frame whose payload deserializes; otherwise the connection is
\* closed, and the step that closes it leaves the players, the connection table
\* and the ban set as they were.
C23_FailedHandshakeCloses ==
    [][ /\ rxpath = "handshake" /\ rxpath' # "handshake"
           => (rxpath' = "stream" <=> Flat(wire) = Framed(payload) /\ Deserializes(payload))
        /\ \A c \in Conns :
              pc[c] = "init" /\ pc'[c] # "init" /\ rxpath = "closed"
              => /\ pc'[c] = "rejected"
                 /\ closed' = closed \cup {c}
                 /\ players' = players
                 /\ clients' = clients
                 /\ banned_players' = banned_players ]_vars

\* the client has sent a part of a frame and closed, and the worker has closed
\* the connection
C23_Witness ==
    /\ pc[1] = "rejected"
    /\ 1 \in closed
    /\ payload # << >>
    /\ rxout = RxEnd

\* C24: an identity that is a key of the players map is a key of it in every
\* later state: no step deletes a player or gives it another uuid.
C24_PlayersNeverDeleted ==
    [][ \A i \in DOMAIN players :
            i \in DOMAIN players' /\ players'[i].uuid = players[i].uuid ]_vars

\* a player that was banned, or one whose connection failed in a broadcast, is
\* kept, disconnected
C24_Witness ==
    \E i \in DOMAIN players :
        /\ ~players[i].connected
        /\ \/ players[i].uuid \in banned_players
           \/ logged = << "send_error" >>

\* C25 as stated: the first frame the server writes to a newly bound connection
\* is the initial position snapshot, so no broadcast frame is written to a
\* connection whose worker has not sent that snapshot yet.
C25_InitFrameFirst ==
    [][ \A e \in tx' : e.data.kind = "state" => pc[e.conn] # "sendinit" ]_vars

\* C26 as stated: in the streaming loop a whole frame with a payload is read
\* as that frame, however its bytes are split into segments.
C26_StreamPrefixAccumulated ==
    [][ /\ rxpath = "stream"
        /\ rxpath' # rxpath \/ rxout' # rxout \/ wire' = << >>
        /\ wire # << >> /\ Flat(wire) = Framed(payload) /\ payload # << >>
        => rxout' = RxFrame(payload) /\ rxpath' = "stream" ]_vars

\* the handler of the command the history names returns to the render loop
Returns(name) ==
    /\ call.name = name
    /\ pc[MainThread] = "b3"
    /\ pc'[MainThread] = "idle"

\* C27 as stated: when ban returns for a player, the player's uuid is in the
\* ban set, no entry of the connection table is bound to it, and the player
\* is marked not connected.
C27_BanPostcondition ==
    [][ Returns("ban") =>
          /\ call.uuid \in banned_players'
          /\ \A e \in Entries(clients') : e.uuid # call.uuid
          /\ ~players'[PlayersGet(players', call.uuid)].connected
      ]_vars

KickStep == pc[MainThread] = "kick" /\ pc'[MainThread] # "kick"

\* C28 as stated: when kick returns for a player, no entry of the connection
\* table is bound to the player's uuid and the player is marked not connected.
C28_AsStated ==
    [][ Returns("kick") =>
          /\ \A e \in Entries(clients') : e.uuid # call.uuid
          /\ ~players'[PlayersGet(players', call.uuid)].connected
      ]_vars

\* C28: when the locked section of kick ends for a player, the connection
\* bound to the player's uuid (if any) has been sent one kick notice, unless
\* the send failed, and has been closed and removed from the table; no other
\* entry is removed; the player is marked not connected and nothing else of
\* players changes; the ban set is unchanged.  A handshake of that uuid that
\* reaches its bind step from then on, also before kick returns, is bound:
\* the player is connected again with the rest of its state as the kick left
\* it.
C28_KickPostcondition ==
    [][ /\ KickStep =>
              LET u == players[ctarget].uuid
                  bound == { e \in Entries(clients) : e.uuid = u }
              IN /\ \A e \in bound :
                        /\ e.conn \in closed'
                        /\ tx' = IF SendOk(e.conn, closed, peerOpen)
                                 THEN {Tx(e.conn, KickFrame)} ELSE {}
                 /\ bound = {} => tx' = {} /\ closed' = closed
                 /\ Entries(clients') = Entries(clients) \ bound
                 /\ players' = [players EXCEPT ![ctarget].connected = FALSE]
                 /\ banned_players' = banned_players
                 /\ pc'[MainThread] = "b1"
        /\ \A c \in Conns :
              (BindStep(c) /\ call.name = "kick" /\ hs[c].uuid = call.uuid
                  /\ pc[MainThread] \in {"b1", "b2", "b3"}) =>
                 LET i == PlayersGet(players, call.uuid)
                 IN /\ ClientsGet(clients', c) = call.uuid
                    /\ players'[i] = [players[i] EXCEPT !.connected = TRUE,
                                                        !.username = hs[c].username,
                                                        !.hat = hs[c].hat]
      ]_vars

\* kick, named by a username two players have, has just sent its notice to the
\* connection of the first of them, and the other is still in the table
C28_Witness ==
    /\ call.name = "kick"
    /\ cmd.args = << "Bob" >>
    /\ pc[MainThread] = "b1"
    /\ logged = << "kicked" >>
    /\ \E c \in closed : tx = {Tx(c, KickFrame)}
    /\ Len(players) = 2
    /\ ~players[1].connected
    /\ players[1].uuid = call.uuid
    /\ players[2].username = "Bob"
    /\ \E e \in Entries(clients) : e.uuid = players[2].uuid

UnbanStep == pc[MainThread] = "unban" /\ pc'[MainThread] = "idle"
\* uuid_to_unban
UuidToUnban == IF ctarget = 0 THEN cmd.args[1] ELSE players[ctarget].uuid

\* C29 as stated: an unban with the identifier of the ban before it leaves the
\* ban set as it was before that ban.
C29_AsStated ==
    [][ (UnbanStep /\ lastBan # NoBan /\ cmd.args[1] = lastBan.id) =>
            banned_players' = lastBan.before
      ]_vars

\* C29: an unban with the identifier of the ban before it leaves the ban set
\* as it was before that ban when it resolves the identifier to the uuid the
\* ban resolved it to and that uuid was not banned before; it does so whenever
\* the identifier is that uuid.  When it resolves the identifier to something
\* else the banned uuid stays in the ban set.  With an empty ban set no
\* handshake is turned away, and the bind step of the uuid, once it is out of
\* the ban set, marks its player connected and keeps the rest of it but for
\* the username and the hat.
C29_BanUnbanRestores ==
    [][ /\ (UnbanStep /\ lastBan # NoBan /\ cmd.args[1] = lastBan.id) =>
              /\ lastBan.id = lastBan.uuid => UuidToUnban = lastBan.uuid
              /\ (UuidToUnban = lastBan.uuid /\ lastBan.uuid \notin lastBan.before) =>
                    banned_players' = lastBan.before
              /\ (UuidToUnban # lastBan.uuid /\ lastBan.uuid \in banned_players) =>
                    lastBan.uuid \in banned_players'
        /\ \A c \in Conns :
              /\ (pc[c] = "init" /\ pc'[c] = "rejected" /\ logged' # << >>) =>
                    banned_players # {}
              /\ (BindStep(c) /\ hs[c].uuid = lastBan.uuid
                      /\ lastBan.uuid \notin banned_players) =>
                    LET i == PlayersGet(players, lastBan.uuid)
                    IN /\ ClientsGet(clients', c) = lastBan.uuid
                       /\ players'[i] = [players[i] EXCEPT !.connected = TRUE,
                                                           !.username = hs[c].username,
                                                           !.hat = hs[c].hat]
      ]_vars

\* a player has been banned and unbanned by its username, and a new handshake
\* has just bound it again
C29_Witness ==
    /\ lastBan.id = "Bob"
    /\ lastBan.uuid = "u1"
    /\ cmdsLeft = 0
    /\ pc[MainThread] = "idle"
    /\ banned_players = {}
    /\ logged = << "reconnected" >>
    /\ \E c \in Conns : pc[c] = "sendinit" /\ ClientsGet(clients, c) = "u1"
    /\ players[PlayersGet(players, "u1")].connected

\* C30 as stated: the update of a frame that has been deserialized always
\* takes its worker on to a broadcast cycle.
C30_AsStated ==
    [][ \A c \in Conns :
          (pc[c] \in {"apply", "write"} /\ pc'[c] # pc[c]) => pc'[c] \in {"write", "b1"}
      ]_vars

\* C30: a deserialized frame without a position takes its worker straight to
\* a broadcast cycle; one with a position does so when its connection is
\* still in the table at the locked step of the update and the player is
\* frozen (nothing is written) or the position is a pair of numbers;
\* when the connection is no longer in the table the worker leaves the loop
\* without a cycle.  A cycle is one snapshot and one send pass, after which
\* the worker reads the next frame.
C30_FrameTriggersOneCycle ==
    [][ \A c \in Conns :
          /\ (pc[c] = "recv" /\ pc'[c] \notin {"recv", "teardown"}) =>
                pc'[c] = IF frame'[c].hasPos THEN "apply" ELSE "b1"
          /\ (pc[c] = "apply" /\ pc'[c] # "apply") =>
                IF ~ClientsHas(clients, c) THEN pc'[c] = "teardown"
                ELSE IF players[BoundPlayer(c)].frozen
                     THEN pc'[c] = "b1" /\ players' = players
                     ELSE pc'[c] = "write"
          /\ (pc[c] = "write" /\ pc'[c] # "write"
                 /\ Unpacks(frame[c]) /\ Converts(frame[c])) => pc'[c] = "b1"
          /\ (pc[c] = "b1" /\ pc'[c] # "b1") => pc'[c] = "b2" /\ snap'[c] # NoSnap
          /\ (pc[c] = "b2" /\ pc'[c] # "b2") => pc'[c] \in {"b3", "send"}
          /\ (pc[c] = "send" /\ pc'[c] # "send") => pc'[c] = "b3"
          /\ (pc[c] = "b3" /\ pc'[c] # "b3") => pc'[c] = "recv"
      ]_vars

\* the cycle of a frame with a position, sent for a frozen player, has taken
\* its snapshot: the player is not where the frame says
C30_Witness ==
    \E c \in Conns :
        /\ pc[c] = "b2"
        /\ frame[c].hasPos
        /\ wstat[c] = "none"
        /\ wplayer[c] # 0
        /\ players[wplayer[c]].frozen
        /\ snap[c] # NoSnap
        /\ << players[wplayer[c]].grid_x, players[wplayer[c]].grid_y >> # frame[c].position

\* the first loop of Server.update has run
UpdateStep == pc[MainThread] = "idle" /\ pc'[MainThread] = "tick"
Rect(pl) == << pl.grid_x, pl.grid_y, pl.width_in_tiles, pl.height_in_tiles, pl.platform_type >>

\* C31: no platform leaves the list or changes its place or type.  A breakable
\* platform whose break timer has started becomes inactive in the update that
\* takes the timer to 1, and in no other step; an inactive one becomes active
\* again in the update that takes its respawn timer to 5, and in no other
\* step.  In every state an inactive platform has break_timer = 0 and an
\* active one has respawn_timer = 0.
C31_PlatformsCycleInPlace ==
    [][ /\ Len(platforms') >= Len(platforms)
        /\ \A i \in DOMAIN platforms :
              LET p == platforms[i]
                  q == platforms'[i]
              IN /\ Rect(q) = Rect(p)
                 /\ ~p.active => p.break_timer = 0
                 /\ p.active => p.respawn_timer = 0
                 /\ (UpdateStep /\ p.platform_type = "breakable") =>
                       /\ (p.active /\ p.break_timer > 0) =>
                             IF p.break_timer + DeltaTime >= BreakAfter
                             THEN ~q.active
                             ELSE q.active /\ q.break_timer = p.break_timer + DeltaTime
                       /\ ~p.active =>
                             IF p.respawn_timer + DeltaTime >= RespawnAfter
                             THEN q.active
                             ELSE ~q.active /\ q.respawn_timer = p.respawn_timer + DeltaTime
                 /\ q.active # p.active =>
                       /\ UpdateStep
                       /\ p.platform_type = "breakable"
                       /\ p.active => p.break_timer > 0
                 /\ (p.break_timer > 0 /\ q.active) => q.break_timer >= p.break_timer
        /\ \A i \in DOMAIN platforms' :
              /\ ~platforms'[i].active => platforms'[i].break_timer = 0
              /\ platforms'[i].active => platforms'[i].respawn_timer = 0
      ]_vars

\* a breakable platform the player stands in has broken and is one update away
\* from coming back, next to one that nobody touched
C31_Witness ==
    /\ Len(platforms) = 4
    /\ pc[MainThread] = "idle"
    /\ \E i \in DOMAIN platforms :
          /\ platforms[i].platform_type = "breakable"
          /\ ~platforms[i].active
          /\ platforms[i].respawn_timer = RespawnAfter - 1
    /\ \E i \in DOMAIN platforms :
          /\ platforms[i].platform_type = "breakable"
          /\ platforms[i].active
          /\ platforms[i].break_timer = 0

\* C32: whenever no thread is inside a locked section, a player is marked
\* connected exactly when an entry of the connection table is bound to its
\* uuid.
C32_ConnectedIffEntry ==
    lock = NoThread =>
        \A i \in DOMAIN players :
            players[i].connected <=> (\E e \in Entries(clients) : e.uuid = players[i].uuid)

\* connection c is out of the table while its worker still runs
Unbound(c) == pc[c] \in {"recv", "apply", "teardown"} /\ ~ClientsHas(clients, c)

\* C33 as stated: the worker of a connection that is no longer in the table
\* changes no player, neither when it processes a frame nor in its teardown.
C33_UnboundWorkerNoEffect ==
    [][ \A c \in Conns : (Unbound(c) /\ pc'[c] # pc[c]) => players' = players ]_vars

\* C39 as stated: no player has the uuid of a handshake that carried none.
C39_NoPlayerWithoutIdentity ==
    \A i \in DOMAIN players : players[i].uuid # NoneUuid

\* C34 as stated: once the ban of a uuid has returned, and as long as the uuid
\* is in the ban set, no entry of the connection table is bound to it.
C34_BannedStaysUnbound ==
    (lastBan # NoBan /\ call.name # "ban" /\ lastBan.uuid \in banned_players) =>
        \A e \in Entries(clients) : e.uuid # lastBan.uuid

\* C35 as stated: the write of a streaming update never changes a player
\* whose frozen flag is set when the write is made.
C35_NoWriteWhileFrozen ==
    [][ \A c \in Conns :
          (pc[c] = "write" /\ pc'[c] # "write" /\ players' # players) =>
              ~players[wplayer[c]].frozen
      ]_vars

\* C36 as stated: while the worker of a connection is inside the sendall of
\* the initial position snapshot, no other thread sends a frame or a notice to
\* that connection.
C36_OneSenderPerSocket ==
    [][ \A c \in Conns :
          (pc[c] = "initsend" /\ pc'[c] = "initsend") => \A m \in tx' : m.conn # c
      ]_vars

\* the positions of a thread inside a locked section that takes several steps
Locked == {"write", "send"}

C38_ChatLineSerializedBeforeClear ==
    [][ \A t \in Threads :
          (pc[t] = "b3" /\ pc'[t] # "b3") => Len(chat_messages) <= seen
      ]_vars

\* ------------------------------------------------------------- the client
\* the frames the server may send to the client: the level with no tile, with
\* its tiles, with a tile made by make_platform that has broken; the other
\* player absent, connected or disconnected
ClientUuid == "u1"
ClientLevels ==
    { << >>, InitPlatforms,
      Append(InitPlatforms, [NewPlatform(1, 1, 1, 1, "breakable") EXCEPT !.active = FALSE]) }
ClientRemotes ==
    { << >> } \cup { << [uuid |-> "u2", connected |-> b] >> : b \in BOOLEAN }
ClientFrames ==
    { [platforms |-> TakeSnapshot(<< >>, pl, << >>).platforms, players |-> r] :
        pl \in ClientLevels, r \in ClientRemotes }

\* Platforms(...) of one entry of platforms_data, with its 'active' flag
ClientPlatform(pdata) ==
    [platform_type |-> pdata.platform_type, active |-> pdata.active]

\* the loop over players_data: a connected remote player is created or
\* updated, a disconnected one is deleted, the own entry updates 'player'
ApplyPlayersData(ps, pd) ==
    (ps \cup {pd[i].uuid : i \in {j \in DOMAIN pd : pd[j].uuid # ClientUuid /\ pd[j].connected}})
        \ {pd[i].uuid : i \in {j \in DOMAIN pd : pd[j].uuid # ClientUuid /\ ~pd[j].connected}}

\* everything but the client
hostVars == << storeVars, lock, logged, pc, workerVars, snap, mainVars, closed,
               peerOpen, tx, budgetVars, wstat, frameVars, stalled, pending,
               behind, ticks, beacon, histVars >>

\* receive_game_state: recvall of a frame, pickle.loads, the three get()
ClientRecv(d) ==
    /\ client.rpc = "recv"
    /\ client' = [client EXCEPT !.received = d, !.rpc = "clear"]
    /\ UNCHANGED hostVars

\* 'with threading.Lock():' makes a new lock object that no other thread
\* holds: the statement never waits.  platforms.clear()
ClientClear ==
    /\ client.rpc = "clear"
    /\ client' = [client EXCEPT !.platforms = << >>,
                                !.rpc = IF client.received.platforms = << >>
                                        THEN "players" ELSE "append"]
    /\ UNCHANGED hostVars

\* one iteration of 'for pdata in platforms_data': platforms.append(platform)
ClientAppend ==
    /\ client.rpc = "append"
    /\ LET n == Len(client.platforms) + 1
       IN client' = [client EXCEPT
                       !.platforms = Append(@, ClientPlatform(client.received.platforms[n])),
                       !.rpc = IF n = Len(client.received.platforms)
                               THEN "players" ELSE "append"]
    /\ UNCHANGED hostVars

\* the loop over players_data
ClientPlayers ==
    /\ client.rpc = "players"
    /\ client' = [client EXCEPT !.players = ApplyPlayersData(@, client.received.players),
                                !.rpc = "camera"]
    /\ UNCHANGED hostVars

\* chat_messages.extend(messages) of a frame without chat lines, the camera's
\* bounds from the rebuilt list; back to recvall
ClientCamera ==
    /\ client.rpc = "camera"
    /\ client' = [client EXCEPT !.camera = IF client.platforms # << >> THEN "level" ELSE "screen",
                                !.received = NoReceived, !.rpc = "recv"]
    /\ UNCHANGED hostVars

\* the main loop's update(delta_time): player.update(platforms, players, ...)
\* reads the list as it is
MainUpdate ==
    /\ client.mpc = "update"
    /\ client' = [client EXCEPT !.view = client.platforms, !.mpc = "render"]
    /\ UNCHANGED hostVars

\* the main loop's render_platforms(screen, platforms, camera) and
\* render_players under a lock object of its own
MainRender ==
    /\ client.mpc = "render"
    /\ client' = [client EXCEPT !.view = client.platforms, !.mpc = "update"]
    /\ UNCHANGED hostVars

InitClientRun == InitServer(0, 0) /\ InitTransport("none")

NextClientRun ==
    \/ \E d \in ClientFrames : ClientRecv(d)
    \/ ClientClear
    \/ ClientAppend
    \/ ClientPlayers
    \/ ClientCamera
    \/ MainUpdate
    \/ MainRender

SpecClient == InitClientRun /\ [][NextClientRun]_vars

\* C40 as stated: the main loop's update and render never read the platform
\* list while the receive thread has cleared it and not yet appended every
\* platform of a snapshot that contains platforms.
C40_SnapshotAppliedAtomically ==
    [][ client'.mpc # client.mpc =>
          ~(/\ client.rpc = "append"
            /\ Len(client.platforms) < Len(client.received.platforms))
      ]_vars

====
